---- MODULE Spec2Model ----
(***************************************************************************)
(* Model of the wikipa dictionary builder (tipatools): preloadDictionary,  *)
(* scanDump and the extraction helpers it calls.                           *)
(*                                                                         *)
(* A Go string is modelled as a sequence of one-character strings, so that *)
(* the string functions of the code (Split, TrimSpace, ToLower, the        *)
(* regular expressions) are computed on characters.  The byte 0 used in    *)
(* composite keys is the character NUL, the tab is TAB.                    *)
(***************************************************************************)
EXTENDS Integers, Sequences, FiniteSets, TLC

\* ------------------------------------------------------------------------
\* Bounds of the model.

\* Number of dump lines a scan reads before the stream must end.
MaxLines == 4

\* Number of parameters of the templates drawn for the extraction check.
MaxParams == 3

\* ------------------------------------------------------------------------
\* Characters.

NUL == "NUL"

TAB == "TAB"

\* unicode.IsSpace on the characters of the model.
WhiteSpace == {" ", TAB}

\* The upper-case letters of the model and their lower-case forms
\* (strings.ToLower).
LowerChar(c) ==
  CASE c = "F" -> "f"
    [] c = "R" -> "r"
    [] c = "E" -> "e"
    [] c = "N" -> "n"
    [] c = "X" -> "x"
    [] c = "B" -> "b"
    [] c = "Z" -> "z"
    [] OTHER -> c

\* unicode.IsLetter on the characters of the model.
Letters ==
  {"a", "b", "c", "e", "f", "i", "k", "m", "n", "o", "p", "r", "t", "x",
   "d", "g", "h", "j", "l", "q", "s", "z",
   "A", "P", "I", "F", "R", "E", "N", "X", "B", "Z"}

\* ipa.Charset: the lower-case Latin letters are IPA symbols; upper-case
\* letters, digits and markup characters are not.
Charset == {"a", "b", "c", "e", "f", "i", "k", "m", "n", "o", "p", "r", "t", "x"}

\* ------------------------------------------------------------------------
\* Package strings.

Range(s) == {s[i] : i \in 1..Len(s)}

MinOf(S) == CHOOSE x \in S : \A y \in S : x <= y

MaxOf(S) == CHOOSE x \in S : \A y \in S : x >= y

\* s[i:] starts with p (i is 1-based).
HasPrefixAt(s, i, p) ==
  /\ i >= 1
  /\ i + Len(p) - 1 <= Len(s)
  /\ SubSeq(s, i, i + Len(p) - 1) = p

HasPrefix(s, p) == HasPrefixAt(s, 1, p)

Contains(s, sub) == \E i \in 1..(Len(s) + 1) : HasPrefixAt(s, i, sub)

\* strings.Index, 1-based; 0 when sub does not occur (Go: -1).
Index(s, sub) ==
  IF Contains(s, sub)
    THEN MinOf({i \in 1..(Len(s) + 1) : HasPrefixAt(s, i, sub)})
    ELSE 0

ContainsAny(s, chars) == \E i \in 1..Len(s) : s[i] \in chars

\* strings.Trim(s, cutset): cuts the characters of cutset at both ends.
Trim(s, cutset) ==
  LET keep == {i \in 1..Len(s) : s[i] \notin cutset}
  IN IF keep = {} THEN <<>> ELSE SubSeq(s, MinOf(keep), MaxOf(keep))

TrimSpace(s) == Trim(s, WhiteSpace)

ToLower(s) == [i \in 1..Len(s) |-> LowerChar(s[i])]

\* strings.Split(s, sep) for a one-character separator: Split("", sep) is
\* the list holding one empty string.
RECURSIVE SplitFrom(_, _, _)
SplitFrom(s, i, sep) ==
  LET rest == {j \in i..Len(s) : s[j] = sep}
  IN IF rest = {}
       THEN <<SubSeq(s, i, Len(s))>>
       ELSE <<SubSeq(s, i, MinOf(rest) - 1)>> \o SplitFrom(s, MinOf(rest) + 1, sep)

Split(s, sep) == SplitFrom(s, 1, sep)

\* strings.SplitN(s, sep, 2): at most two parts, the second unsplit.
SplitN2(s, sep) ==
  LET at == {j \in 1..Len(s) : s[j] = sep}
  IN IF at = {}
       THEN <<s>>
       ELSE <<SubSeq(s, 1, MinOf(at) - 1), SubSeq(s, MinOf(at) + 1, Len(s))>>

RECURSIVE Join(_, _)
Join(list, sep) ==
  IF list = <<>> THEN <<>>
  ELSE IF Len(list) = 1 THEN list[1]
  ELSE list[1] \o sep \o Join(Tail(list), sep)

\* s without the characters of drop (the strings.Replacer of the code maps
\* each of them to the empty string).
RECURSIVE RemoveChars(_, _)
RemoveChars(s, drop) ==
  IF s = <<>> THEN <<>>
  ELSE IF Head(s) \in drop THEN RemoveChars(Tail(s), drop)
  ELSE <<Head(s)>> \o RemoveChars(Tail(s), drop)

\* ------------------------------------------------------------------------
\* String literals of the code.

sPronOpen == <<"{", "{", "p", "r", "o", "n", "|">>

sAPIOpen == <<"{", "{", "A", "P", "I", "|">>

sBold == <<"'", "'", "'">>

sTitleOpen == <<"<", "t", "i", "t", "l", "e", ">">>

sTitleClose == <<"<", "/", "t", "i", "t", "l", "e", ">">>

sTextOpen == <<"<", "t", "e", "x", "t">>

sTextClose == <<"<", "/", "t", "e", "x", "t", ">">>

sFr == <<"f", "r">>

\* [a-z] on the characters of the model.
AsciiLower ==
  {"a", "b", "c", "d", "e", "f", "g", "h", "i", "j", "k", "l", "m", "n", "o", "p",
   "q", "r", "s", "t", "x", "z"}

\* The characters the replacer of normalizeHeadword removes.
replace == {" ", TAB, "[", "]", "{", "}", "+", "(", ")", "|"}

\* ------------------------------------------------------------------------
\* Regular expressions.

\* pronTemplateRegex \{\{(?:pron|API)\|([^}]*)\}\} tried at position i:
\* the opening, the longest run of characters other than '}', then "}}".
\* ok, the captured parameter text and the position of the last character.
pronMatchAt(s, i) ==
  LET open == IF HasPrefixAt(s, i, sPronOpen) THEN Len(sPronOpen)
              ELSE IF HasPrefixAt(s, i, sAPIOpen) THEN Len(sAPIOpen)
              ELSE 0
      from == i + open
      closers == {k \in from..Len(s) : s[k] = "}"}
      k == IF closers = {} THEN 0 ELSE MinOf(closers)
  IN IF open > 0 /\ k > 0 /\ k + 1 <= Len(s) /\ s[k + 1] = "}"
       THEN [ok |-> TRUE, group |-> SubSeq(s, from, k - 1), last |-> k + 1]
       ELSE [ok |-> FALSE, group |-> <<>>, last |-> 0]

\* FindAllStringSubmatch(line, -1): the captured groups of the leftmost
\* non-overlapping matches, in order.
RECURSIVE pronMatchesFrom(_, _)
pronMatchesFrom(s, i) ==
  IF i > Len(s) THEN <<>>
  ELSE LET m == pronMatchAt(s, i)
       IN IF m.ok THEN <<m.group>> \o pronMatchesFrom(s, m.last + 1)
          ELSE pronMatchesFrom(s, i + 1)

pronTemplateRegex(s) == pronMatchesFrom(s, 1)

\* headwordRegex '''([^']+)''' tried at position i.
headwordMatchAt(s, i) ==
  LET from == i + 3
      quotes == {k \in from..Len(s) : s[k] = "'"}
      k == IF quotes = {} THEN 0 ELSE MinOf(quotes)
  IN IF HasPrefixAt(s, i, sBold) /\ k > from /\ HasPrefixAt(s, k, sBold)
       THEN [ok |-> TRUE, group |-> SubSeq(s, from, k - 1)]
       ELSE [ok |-> FALSE, group |-> <<>>]

\* FindStringSubmatch: the leftmost match.
headwordRegex(s) ==
  LET hits == {i \in 1..Len(s) : headwordMatchAt(s, i).ok}
  IN IF hits = {} THEN [ok |-> FALSE, group |-> <<>>]
     ELSE headwordMatchAt(s, MinOf(hits))

\* htmlTagRegexp <[^>]+> tried at position i: the position of the closing
\* '>' or 0.
tagEndAt(s, i) ==
  LET closers == {k \in (i + 1)..Len(s) : s[k] = ">"}
  IN IF s[i] = "<" /\ closers # {} /\ MinOf(closers) >= i + 2
       THEN MinOf(closers)
       ELSE 0

\* htmlTagRegexp.ReplaceAllString(raw, "").
RECURSIVE stripTagsFrom(_, _)
stripTagsFrom(s, i) ==
  IF i > Len(s) THEN <<>>
  ELSE LET k == tagEndAt(s, i)
       IN IF k > 0 THEN stripTagsFrom(s, k + 1)
          ELSE <<s[i]>> \o stripTagsFrom(s, i + 1)

htmlTagRegexp(s) == stripTagsFrom(s, 1)

\* interwikiPrefixRegex ^:([a-z]{2,3}):(.+)$ : ok and the second group.
interwikiPrefixRegex(s) ==
  LET fits(n) ==
        /\ Len(s) >= n + 3
        /\ s[1] = ":"
        /\ \A j \in 2..(n + 1) : s[j] \in AsciiLower
        /\ s[n + 2] = ":"
      n == IF fits(3) THEN 3 ELSE IF fits(2) THEN 2 ELSE 0
  IN IF n > 0 THEN [ok |-> TRUE, rest |-> SubSeq(s, n + 3, Len(s))]
     ELSE [ok |-> FALSE, rest |-> <<>>]

\* html.UnescapeString on the entities the model's inputs use.
Entities ==
  { [name |-> <<"&", "#", "4", "3", ";">>, char |-> "+"],
    [name |-> <<"&", "l", "t", ";">>, char |-> "<"],
    [name |-> <<"&", "g", "t", ";">>, char |-> ">"],
    [name |-> <<"&", "a", "m", "p", ";">>, char |-> "&"] }

RECURSIVE unescapeFrom(_, _)
unescapeFrom(s, i) ==
  IF i > Len(s) THEN <<>>
  ELSE LET hit == {e \in Entities : HasPrefixAt(s, i, e.name)}
       IN IF hit # {}
            THEN LET e == CHOOSE x \in hit : TRUE
                 IN <<e.char>> \o unescapeFrom(s, i + Len(e.name))
            ELSE <<s[i]>> \o unescapeFrom(s, i + 1)

UnescapeString(s) == unescapeFrom(s, 1)

\* ------------------------------------------------------------------------
\* Extraction helpers.

\* The language code as extractPronunciationsFromLine and runParse
\* normalise it.
normLang(lang) ==
  LET l == ToLower(TrimSpace(lang))
  IN IF l = <<>> THEN sFr ELSE l

\* Mutant: every template counts as one of the language.
isTargetLangAlways(parts, lang) == TRUE

\* The first loop over the parameters: the template names the language.
isTargetLang(parts, lang) ==
  \E i \in 1..Len(parts) : ToLower(TrimSpace(parts[i])) = lang

\* Mutant: the language marker is skipped instead of ending the loop.
RECURSIVE collectPartsNoBreak(_, _, _)
collectPartsNoBreak(parts, lang, out) ==
  IF parts = <<>> THEN out
  ELSE LET p == TrimSpace(Head(parts))
       IN IF ToLower(p) = lang THEN collectPartsNoBreak(Tail(parts), lang, out)
          ELSE IF p = <<>> THEN collectPartsNoBreak(Tail(parts), lang, out)
          ELSE IF ~ContainsAny(p, Charset) THEN collectPartsNoBreak(Tail(parts), lang, out)
          ELSE IF p \in Range(out) THEN collectPartsNoBreak(Tail(parts), lang, out)
          ELSE collectPartsNoBreak(Tail(parts), lang, Append(out, p))

\* The second loop over the parameters: collect until the language marker,
\* skipping empty and non-IPA parameters and those already seen on the line
\* (seen holds exactly the elements of out).
RECURSIVE collectParts(_, _, _)
collectParts(parts, lang, out) ==
  IF parts = <<>> THEN out
  ELSE LET p == TrimSpace(Head(parts))
       IN IF ToLower(p) = lang THEN out
          ELSE IF p = <<>> THEN collectParts(Tail(parts), lang, out)
          ELSE IF ~ContainsAny(p, Charset) THEN collectParts(Tail(parts), lang, out)
          ELSE IF p \in Range(out) THEN collectParts(Tail(parts), lang, out)
          ELSE collectParts(Tail(parts), lang, Append(out, p))

\* The loop over the matches of the line.
RECURSIVE extractFromMatches(_, _, _)
extractFromMatches(matches, lang, out) ==
  IF matches = <<>> THEN out
  ELSE LET raw == Head(matches)
           parts == Split(raw, "|")
       IN IF raw = <<>> THEN extractFromMatches(Tail(matches), lang, out)
          ELSE IF ~isTargetLang(parts, lang)
            THEN extractFromMatches(Tail(matches), lang, out)
          ELSE extractFromMatches(Tail(matches), lang, collectParts(parts, lang, out))

extractPronunciationsFromLine(line, lang) ==
  LET matches == pronTemplateRegex(line)
  IN IF matches = <<>> THEN <<>>
     ELSE extractFromMatches(matches, normLang(lang), <<>>)

\* Mutant: every character counts as a letter.
letterCountAll(s) == Len(s)

\* The letters of s (unicode.IsLetter).
letterCount(s) == Cardinality({i \in 1..Len(s) : s[i] \in Letters})

\* normalizeHeadword: the empty string is the rejection.
normalizeHeadword(raw) ==
  IF raw = <<>> THEN <<>>
  ELSE
    LET r1 == TrimSpace(htmlTagRegexp(UnescapeString(raw)))
        m == interwikiPrefixRegex(r1)
        r2 == IF m.ok THEN TrimSpace(m.rest) ELSE r1
        r3 == TrimSpace(RemoveChars(r2, replace))
        r4 == Trim(r3, {".", ",", ";", ":"})
    IN IF r3 = <<>> THEN <<>>
       ELSE IF HasPrefix(r3, <<"#">>) THEN <<>>
       ELSE IF r4 = <<>> THEN <<>>
       ELSE IF letterCount(r4) = 0 THEN <<>>
       ELSE IF Contains(r4, <<"/">>) /\ letterCount(r4) <= 2 THEN <<>>
       ELSE r4

extractHeadwordFromLine(line, title) ==
  LET m == headwordRegex(line)
      raw == IF m.ok THEN TrimSpace(m.group) ELSE title
  IN normalizeHeadword(raw)

\* The composite key word + "\x00" + pronunciation.
Key(w, p) == w \o <<NUL>> \o p

\* ------------------------------------------------------------------------
\* Inputs: the words, pronunciations, dictionary files and dump lines the
\* runs of the model are drawn from.

wM == <<"m">>

wN == <<"n">>

wK == <<"k">>

pA == <<"a">>

pB == <<"b">>

pC == <<"c">>

sEn == <<"e", "n">>

\* A pron/API template with the given parameters.
Tpl(open, params) == open \o Join(params, <<"|">>) \o <<"}", "}">>

\* A bold headword span.
Bold(w) == sBold \o w \o sBold

\* The dictionary files --preload may name.  present = FALSE is the run
\* without --preload; gob tells whether the file decodes as a gob map, dict
\* is the decoded map, lines are the lines of a text dictionary.
NoFile == [present |-> FALSE, gob |-> FALSE, dict |-> <<>>, lines |-> <<>>]

GobFile(d) == [present |-> TRUE, gob |-> TRUE, dict |-> d, lines |-> <<>>]

TextFile(ls) == [present |-> TRUE, gob |-> FALSE, dict |-> <<>>, lines |-> ls]

PreloadFiles ==
  { NoFile,
    GobFile(wM :> <<pA>>),
    GobFile((wM :> <<pA, <<" ", "a">>, <<>>, pB>>) @@ (wN :> <<>>)),
    TextFile(<< wM \o <<TAB>> \o pA \o <<" ", "|", " ">> \o pC,
                <<"#", "x">>,
                wN \o <<TAB, "|">>,
                wK >>) }

\* The lines a dump may hold.
DumpLines ==
  { sTitleOpen \o wM \o sTitleClose,
    sTextOpen \o <<">">>,
    sTextClose,
    Tpl(sPronOpen, <<pB, pC, sFr>>),
    Bold(wM) \o <<" ">> \o Tpl(sPronOpen, <<pA, sFr>>),
    Bold(wK) \o Tpl(sAPIOpen, <<pB, <<" ", "a", " ">>, <<"F", "R">>, pC>>),
    Bold(wM) \o Tpl(sPronOpen, <<pC, sEn>>) \o Tpl(sPronOpen, <<pB, sFr>>),
    Bold(wN) \o Tpl(sPronOpen, <<pA, sEn>>),
    sTextOpen \o <<">">> \o Bold(wN) \o Tpl(sPronOpen, <<pC, sFr>>)
      \o Tpl(sPronOpen, <<pB, pC, sFr>>) }

\* The values of --lang.
LangFlags == {sFr, <<" ", "E", "N">>}

\* mergeMode.
MergeModes == {"append", "prepend", "noOverride", "replace"}

\* ------------------------------------------------------------------------
\* State.

VARIABLES
  pc,              \* position of the run: start, preloadGob, preloadText, scan, scanned
  mode,            \* cfg.MergeMode
  lang,            \* the language code runParse passes to scanDump
  file,            \* the file --preload names
  entries,         \* map[string][]string
  seenWordPron,    \* set of composite keys
  preloadedWords,  \* set of words
  pdict,           \* preload: the entries of the decoded map not yet ranged over
  plines,          \* preload: the lines of the text file not yet read
  pword,           \* preload: the word of the current entry or line
  pprons,          \* preload: its pronunciations not yet merged
  title,           \* scanDump: current page title
  inText,          \* scanDump: inside a text node
  lineCount,       \* scanDump: lines read
  replaced,        \* scanDump: words whose preloaded list was discarded
  line,            \* scanDump: the line being processed
  word,            \* scanDump: its headword
  prons,           \* scanDump: its pronunciations not yet aggregated
  atScanStart,     \* history: entries, seenWordPron, preloadedWords when scanDump is entered
  yielded,         \* history: the <<word, pronunciation>> pairs the dump yielded so far
  words,           \* writeTextDictionary: the words collected from the map so far
  out,             \* standard output: the lines or the gob value written
  exported,        \* history: the entries handed to the writer
  run,             \* 1 for the build, 2 for the run that preloads what the build wrote
  args,            \* the command line of a tool
  err,             \* the error a tool ends with ("" for none)
  exit,            \* the exit status of the process (-1 while it runs)
  events,          \* the I/O the process has done so far, in order
  resp,            \* the HTTP response of openHTTPPossiblyCompressed
  res,             \* composeText: the g2p.Result
  segs,            \* composeText: the segments
  si,              \* composeText: i of the insertion sort
  sj               \* composeText: j of the insertion sort

vars ==
  <<pc, mode, lang, file, entries, seenWordPron, preloadedWords, pdict, plines,
    pword, pprons, title, inText, lineCount, replaced, line, word, prons,
    atScanStart, yielded, words, out, exported, run, args, err, exit, events,
    resp, res, segs, si, sj>>

exportVars == <<words, out, exported, run>>

cliVars == <<args, err, exit, events, resp>>

composeVars == <<res, segs, si, sj>>

rep == <<entries, seenWordPron, preloadedWords>>

preloadVars == <<pdict, plines, pword, pprons>>

scanVars == <<title, inText, lineCount, replaced, line, word, prons>>

cfgVars == <<mode, lang, file>>

\* entries[w], nil for a missing key.
Get(e, w) == IF w \in DOMAIN e THEN e[w] ELSE <<>>

\* entries[w] = list.
Put(e, w, list) == [x \in (DOMAIN e) \cup {w} |-> IF x = w THEN list ELSE e[x]]

Snapshot == [entries |-> entries, seen |-> seenWordPron, preloaded |-> preloadedWords]

\* Nothing exported yet.
exportIdle ==
  /\ words = <<>>
  /\ out = <<>>
  /\ exported = <<>>
  /\ run = 1

\* No command line under consideration.
cliIdle ==
  /\ args = <<>>
  /\ err = ""
  /\ exit = -1
  /\ events = <<>>
  /\ resp = <<>>

\* No result being composed.
composeIdle ==
  /\ res = <<>>
  /\ segs = <<>>
  /\ si = 0
  /\ sj = 0

Init ==
  /\ exportIdle
  /\ cliIdle
  /\ composeIdle
  /\ pc = "start"
  /\ mode \in MergeModes
  /\ \E l \in LangFlags : lang = normLang(l)
  /\ file \in PreloadFiles
  /\ entries = <<>>
  /\ seenWordPron = {}
  /\ preloadedWords = {}
  /\ pdict = <<>>
  /\ plines = <<>>
  /\ pword = <<>>
  /\ pprons = <<>>
  /\ title = <<>>
  /\ inText = FALSE
  /\ lineCount = 0
  /\ replaced = {}
  /\ line = <<>>
  /\ word = <<>>
  /\ prons = <<>>
  /\ atScanStart = [entries |-> <<>>, seen |-> {}, preloaded |-> {}]
  /\ yielded = <<>>

\* ------------------------------------------------------------------------
\* preloadDictionary.

\* One pronunciation of a preloaded word: trimmed, dropped when empty or
\* when its composite key is known, else appended.
preloadKeeps(seen, w, raw) ==
  /\ TrimSpace(raw) # <<>>
  /\ Key(w, TrimSpace(raw)) \notin seen

\* The fields of a text dictionary line: ok, word and chunks.
parseTextLine(text) ==
  LET ln == TrimSpace(text)
      parts == SplitN2(ln, TAB)
      w == TrimSpace(parts[1])
      rawProns == TrimSpace(parts[2])
  IN IF ln = <<>> \/ HasPrefix(ln, <<"#">>) THEN [ok |-> FALSE, word |-> <<>>, chunks |-> <<>>]
     ELSE IF Len(parts) # 2 THEN [ok |-> FALSE, word |-> <<>>, chunks |-> <<>>]
     ELSE IF w = <<>> \/ rawProns = <<>> THEN [ok |-> FALSE, word |-> <<>>, chunks |-> <<>>]
     ELSE [ok |-> TRUE, word |-> w, chunks |-> Split(rawProns, "|")]

\* runParse without --preload goes on to the scan.
NoPreload ==
  /\ pc = "start"
  /\ ~file.present
  /\ pc' = "scan"
  /\ atScanStart' = Snapshot
  /\ UNCHANGED <<cfgVars, exportVars, cliVars, composeVars, rep, preloadVars, scanVars, yielded>>

\* Mutant: after the failed decode the text parser goes on from where the
\* decoder stopped, past the first line.
PreloadOpenNoRewind ==
  /\ pc = "start"
  /\ file.present
  /\ IF file.gob
       THEN pc' = "preloadGob" /\ pdict' = file.dict /\ plines' = <<>>
       ELSE /\ pc' = "preloadText"
            /\ plines' = IF file.lines = <<>> THEN <<>> ELSE Tail(file.lines)
            /\ pdict' = <<>>
  /\ UNCHANGED <<cfgVars, exportVars, cliVars, composeVars, rep, pword, pprons, scanVars, atScanStart, yielded>>

\* The file is opened and the gob decoder tried; on failure the file is
\* rewound for the text parser.
PreloadOpen ==
  /\ pc = "start"
  /\ file.present
  /\ IF file.gob
       THEN pc' = "preloadGob" /\ pdict' = file.dict /\ plines' = <<>>
       ELSE pc' = "preloadText" /\ plines' = file.lines /\ pdict' = <<>>
  /\ UNCHANGED <<cfgVars, exportVars, cliVars, composeVars, rep, pword, pprons, scanVars, atScanStart, yielded>>

\* for w, prons := range dict (in any order).
PreloadGobWord ==
  /\ pc = "preloadGob"
  /\ pprons = <<>>
  /\ \E w \in DOMAIN pdict :
       /\ preloadedWords' = preloadedWords \cup {w}
       /\ pword' = w
       /\ pprons' = pdict[w]
       /\ pdict' = [x \in (DOMAIN pdict) \ {w} |-> pdict[x]]
  /\ UNCHANGED <<pc, cfgVars, exportVars, cliVars, composeVars, entries, seenWordPron, plines, scanVars, atScanStart, yielded>>

\* Mutant: preload puts each pronunciation in front of the list.
PreloadPronPrepends ==
  /\ pprons # <<>>
  /\ LET p == TrimSpace(Head(pprons))
     IN IF preloadKeeps(seenWordPron, pword, Head(pprons))
          THEN /\ seenWordPron' = seenWordPron \cup {Key(pword, p)}
               /\ entries' = Put(entries, pword, <<p>> \o Get(entries, pword))
          ELSE UNCHANGED <<seenWordPron, entries>>
  /\ pprons' = Tail(pprons)
  /\ UNCHANGED <<pc, cfgVars, exportVars, cliVars, composeVars, preloadedWords, pdict, plines, pword, scanVars, atScanStart, yielded>>

\* The body of the loop over the pronunciations of a preloaded word.
PreloadPron ==
  /\ pprons # <<>>
  /\ LET p == TrimSpace(Head(pprons))
     IN IF preloadKeeps(seenWordPron, pword, Head(pprons))
          THEN /\ seenWordPron' = seenWordPron \cup {Key(pword, p)}
               /\ entries' = Put(entries, pword, Append(Get(entries, pword), p))
          ELSE UNCHANGED <<seenWordPron, entries>>
  /\ pprons' = Tail(pprons)
  /\ UNCHANGED <<pc, cfgVars, exportVars, cliVars, composeVars, preloadedWords, pdict, plines, pword, scanVars, atScanStart, yielded>>

PreloadGobPron ==
  /\ pc = "preloadGob"
  /\ PreloadPron

PreloadTextPron ==
  /\ pc = "preloadText"
  /\ PreloadPron

\* scanner.Scan() of the text parser: one line.
PreloadTextLine ==
  /\ pc = "preloadText"
  /\ pprons = <<>>
  /\ plines # <<>>
  /\ LET f == parseTextLine(Head(plines))
     IN IF f.ok
          THEN /\ preloadedWords' = preloadedWords \cup {f.word}
               /\ pword' = f.word
               /\ pprons' = f.chunks
          ELSE UNCHANGED <<preloadedWords, pword, pprons>>
  /\ plines' = Tail(plines)
  /\ UNCHANGED <<pc, cfgVars, exportVars, cliVars, composeVars, entries, seenWordPron, pdict, scanVars, atScanStart, yielded>>

\* preloadDictionary returns nil; runParse opens the source and enters
\* scanDump.
PreloadDone ==
  /\ \/ pc = "preloadGob" /\ DOMAIN pdict = {}
     \/ pc = "preloadText" /\ plines = <<>>
  /\ pprons = <<>>
  /\ pc' = "scan"
  /\ atScanStart' = Snapshot
  /\ UNCHANGED <<cfgVars, exportVars, cliVars, composeVars, rep, preloadVars, scanVars, yielded>>

\* ------------------------------------------------------------------------
\* scanDump.

\* Mutant: an empty span is taken as the title too.
scanTitleTakesEmpty(l, t) ==
  LET trim == TrimSpace(l)
      end == Index(trim, sTitleClose)
  IN IF /\ Contains(l, sTitleOpen) /\ Contains(l, sTitleClose)
        /\ HasPrefix(trim, sTitleOpen) /\ Contains(trim, sTitleClose)
       THEN SubSeq(trim, Len(sTitleOpen) + 1, end - 1)
       ELSE t

\* Title detection.
scanTitle(l, t) ==
  LET trim == TrimSpace(l)
      end == Index(trim, sTitleClose)
  IN IF /\ Contains(l, sTitleOpen) /\ Contains(l, sTitleClose)
        /\ HasPrefix(trim, sTitleOpen) /\ Contains(trim, sTitleClose)
        /\ end - 1 > Len(sTitleOpen)
       THEN SubSeq(trim, Len(sTitleOpen) + 1, end - 1)
       ELSE t

\* Mutant: the two tests in the other order, so that a line that closes
\* and opens a text node leaves inText true.
scanInTextCloseFirst(l, in) ==
  LET in1 == IF Contains(l, sTextClose) THEN FALSE ELSE in
  IN IF Contains(l, sTextOpen) THEN TRUE ELSE in1

\* Entering and leaving the text node.
scanInText(l, in) ==
  LET in1 == IF Contains(l, sTextOpen) THEN TRUE ELSE in
  IN IF Contains(l, sTextClose) THEN FALSE ELSE in1

\* The quick reject lets the line through.
hasTemplateMarker(l) == Contains(l, sPronOpen) \/ Contains(l, sAPIOpen)

\* Mutant: the no-override test is missing.
noOverrideSkipsNothing(m, w, pre) == FALSE

\* --no-override: the line of a preloaded word is skipped.
noOverrideSkips(m, w, pre) == m = "noOverride" /\ w \in pre

\* Mutant: the replaced set is not consulted.
replaceClearsEveryLine(m, w, pre, done) == m = "replace" /\ w \in pre

\* --replace: the preloaded list of the word is to be discarded now.
replaceClears(m, w, pre, done) == m = "replace" /\ w \in pre /\ w \notin done

\* Mutant: the composite keys of the discarded list stay.
dropKeysKeepsAll(seen, w, olds) == seen

\* --replace: the composite keys of the discarded list are deleted.
dropKeys(seen, w, olds) == seen \ {Key(w, olds[i]) : i \in 1..Len(olds)}

\* Mutant: no global de-duplication.
alreadySeenNever(seen, key) == FALSE

\* The global de-duplication test of the aggregation loop.
alreadySeen(seen, key) == key \in seen

\* Mutant: every mode prepends.
mergeIntoFront(m, list, p) == <<p>> \o list

\* Mutant: replace mode overwrites the list with each pronunciation.
mergeIntoOverwrites(m, list, p) ==
  IF m = "prepend" THEN <<p>> \o list
  ELSE IF m = "replace" THEN <<p>>
  ELSE Append(list, p)

\* The switch of the aggregation loop: the new list of the word.
mergeInto(m, list, p) ==
  IF m = "prepend" THEN <<p>> \o list ELSE Append(list, p)

\* Mutant: the replace discard is done as soon as the headword of a body
\* line is known, before the quick reject and the extraction.
scanOneLineDiscardsFirst(l) ==
  LET t == scanTitle(l, title)
      in == scanInText(l, inText)
      w == IF in THEN extractHeadwordFromLine(l, t) ELSE <<>>
      ps == IF w = <<>> \/ ~hasTemplateMarker(l) \/ noOverrideSkips(mode, w, preloadedWords)
              THEN <<>>
              ELSE extractPronunciationsFromLine(l, lang)
  IN /\ line' = l
     /\ lineCount' = lineCount + 1
     /\ title' = t
     /\ inText' = in
     /\ word' = IF ps = <<>> THEN <<>> ELSE w
     /\ prons' = ps
     /\ yielded' = yielded \o [i \in 1..Len(ps) |-> <<w, ps[i]>>]
     /\ IF w # <<>> /\ replaceClears(mode, w, preloadedWords, replaced)
          THEN /\ seenWordPron' = dropKeys(seenWordPron, w, Get(entries, w))
               /\ entries' = Put(entries, w, <<>>)
               /\ replaced' = replaced \cup {w}
          ELSE UNCHANGED <<seenWordPron, entries, replaced>>

\* The body of the loop of scanDump for the line l, up to the aggregation
\* loop.
scanOneLine(l) ==
  LET t == scanTitle(l, title)
      in == scanInText(l, inText)
      w == IF in /\ hasTemplateMarker(l) THEN extractHeadwordFromLine(l, t) ELSE <<>>
      ps == IF w = <<>> \/ noOverrideSkips(mode, w, preloadedWords)
              THEN <<>>
              ELSE extractPronunciationsFromLine(l, lang)
  IN /\ line' = l
     /\ lineCount' = lineCount + 1
     /\ title' = t
     /\ inText' = in
     /\ word' = IF ps = <<>> THEN <<>> ELSE w
     /\ prons' = ps
     /\ yielded' = yielded \o [i \in 1..Len(ps) |-> <<w, ps[i]>>]
     /\ IF ps # <<>> /\ replaceClears(mode, w, preloadedWords, replaced)
          THEN /\ seenWordPron' = dropKeys(seenWordPron, w, Get(entries, w))
               /\ entries' = Put(entries, w, <<>>)
               /\ replaced' = replaced \cup {w}
          ELSE UNCHANGED <<seenWordPron, entries, replaced>>

\* scanner.Scan() of scanDump: one line, up to the aggregation loop.
ScanLine ==
  /\ pc = "scan"
  /\ prons = <<>>
  /\ lineCount < MaxLines
  /\ \E l \in DumpLines : scanOneLine(l)
  /\ UNCHANGED <<pc, cfgVars, exportVars, cliVars, composeVars, preloadedWords, preloadVars, atScanStart>>

\* Mutant: a word recorded from the dump is marked as preloaded.
RecordPronMarksWord ==
  /\ pc = "scan"
  /\ prons # <<>>
  /\ LET p == Head(prons)
     IN IF alreadySeen(seenWordPron, Key(word, p))
          THEN UNCHANGED <<seenWordPron, entries>>
          ELSE /\ seenWordPron' = seenWordPron \cup {Key(word, p)}
               /\ entries' = Put(entries, word, mergeInto(mode, Get(entries, word), p))
  /\ prons' = Tail(prons)
  /\ preloadedWords' = preloadedWords \cup {word}
  /\ UNCHANGED <<pc, cfgVars, exportVars, cliVars, composeVars, preloadVars, title, inText, lineCount,
                 replaced, line, word, atScanStart, yielded>>

\* The body of the aggregation loop: one pronunciation of the line.
RecordPron ==
  /\ pc = "scan"
  /\ prons # <<>>
  /\ LET p == Head(prons)
     IN IF alreadySeen(seenWordPron, Key(word, p))
          THEN UNCHANGED <<seenWordPron, entries>>
          ELSE /\ seenWordPron' = seenWordPron \cup {Key(word, p)}
               /\ entries' = Put(entries, word, mergeInto(mode, Get(entries, word), p))
  /\ prons' = Tail(prons)
  /\ UNCHANGED <<pc, cfgVars, exportVars, cliVars, composeVars, preloadedWords, preloadVars, title, inText, lineCount,
                 replaced, line, word, atScanStart, yielded>>

\* scanner.Scan() returns false: scanDump returns the counts.
ScanEOF ==
  /\ pc = "scan"
  /\ prons = <<>>
  /\ pc' = "scanned"
  /\ UNCHANGED <<cfgVars, exportVars, cliVars, composeVars, rep, preloadVars, scanVars, atScanStart, yielded>>

Next ==
  \/ NoPreload
  \/ PreloadOpen
  \/ PreloadGobWord
  \/ PreloadGobPron
  \/ PreloadTextLine
  \/ PreloadTextPron
  \/ PreloadDone
  \/ ScanLine
  \/ RecordPron
  \/ ScanEOF

Spec == Init /\ [][Next]_vars

\* ------------------------------------------------------------------------
\* Vocabulary of the properties.

\* The scan is between two lines, or over.
LineBoundary == pc \in {"scan", "scanned"} /\ prons = <<>>

\* s without the later occurrences of its elements.
RECURSIVE KeepFirst(_)
KeepFirst(s) ==
  IF s = <<>> THEN <<>>
  ELSE LET front == KeepFirst(SubSeq(s, 1, Len(s) - 1))
           last == s[Len(s)]
       IN IF last \in Range(front) THEN front ELSE Append(front, last)

NoRepeat(s) == \A i, j \in 1..Len(s) : s[i] = s[j] => i = j

\* The pronunciations the dump yielded for w so far, in order.
YieldedFor(w) ==
  LET mine == SelectSeq(yielded, LAMBDA y : y[1] = w)
  IN [i \in 1..Len(mine) |-> mine[i][2]]

\* The list of w when scanDump was entered.
PreloadedList(w) == Get(atScanStart.entries, w)

\* The pronunciations the dump yielded for w that w did not have after
\* preload, in order of first observation.
NewFor(w) ==
  KeepFirst(SelectSeq(YieldedFor(w), LAMBDA p : p \notin Range(PreloadedList(w))))

AllWords ==
  (DOMAIN entries) \cup (DOMAIN atScanStart.entries) \cup preloadedWords
    \cup {yielded[i][1] : i \in 1..Len(yielded)}

\* The composite keys of w in a set of keys.
KeysOf(w, keys) == {k \in keys : HasPrefix(k, w \o <<NUL>>)}

RECURSIVE SumLen(_, _)
SumLen(e, ws) ==
  IF ws = {} THEN 0
  ELSE LET w == CHOOSE x \in ws : TRUE
       IN Len(e[w]) + SumLen(e, ws \ {w})

\* ------------------------------------------------------------------------
\* C1: under merge mode prepend, at every line boundary of the scan each
\* word's list is the pronunciations newly recorded from the dump, in the
\* order in which the dump yielded them, followed by the list the word had
\* after preload.
C1_PrependKeepsDumpOrder ==
  (LineBoundary /\ mode = "prepend") =>
    \A w \in AllWords : Get(entries, w) = NewFor(w) \o PreloadedList(w)

\* C2: under merge mode append, at every line boundary of the scan each
\* word's list is the list it had after preload followed by the
\* pronunciations the dump yielded for it that were not already present, in
\* order of first observation.
C2_AppendAfterPreloaded ==
  (LineBoundary /\ mode = "append") =>
    \A w \in AllWords : Get(entries, w) = PreloadedList(w) \o NewFor(w)

\* C2 witness: the scan is over in append mode for a word that had a
\* preloaded list, got two new pronunciations and was yielded one it had.
C2_Witness ==
  /\ pc = "scanned"
  /\ mode = "append"
  /\ \E w \in AllWords :
       /\ PreloadedList(w) # <<>>
       /\ Len(NewFor(w)) >= 2
       /\ \E i \in 1..Len(YieldedFor(w)) : YieldedFor(w)[i] \in Range(PreloadedList(w))

\* C3: under merge mode no-override, a word that is in preloadedWords when
\* the scan starts keeps its list and its composite keys throughout the
\* scan, and at every line boundary a word that is not preloaded has the
\* list append mode gives it.
C3_NoOverrideFreezesPreloaded ==
  (pc \in {"scan", "scanned"} /\ mode = "noOverride") =>
    /\ \A w \in atScanStart.preloaded :
         /\ Get(entries, w) = PreloadedList(w)
         /\ (w \in DOMAIN entries) = (w \in DOMAIN atScanStart.entries)
         /\ KeysOf(w, seenWordPron) = KeysOf(w, atScanStart.seen)
    /\ LineBoundary =>
         \A w \in AllWords \ atScanStart.preloaded :
           Get(entries, w) = PreloadedList(w) \o NewFor(w)

\* C3 witness: in no-override mode the line just scanned carries a
\* target-language pronunciation for a preloaded word, and a word that is
\* not preloaded has been recorded.
C3_Witness ==
  /\ pc = "scan"
  /\ mode = "noOverride"
  /\ inText
  /\ hasTemplateMarker(line)
  /\ extractHeadwordFromLine(line, title) \in preloadedWords
  /\ extractPronunciationsFromLine(line, lang) # <<>>
  /\ \E w \in (DOMAIN entries) \ preloadedWords : entries[w] # <<>>

\* C4: under merge mode replace, at every line boundary a preloaded word
\* for which the dump yielded a pronunciation has exactly the distinct
\* pronunciations the dump yielded for it, in order of first observation,
\* and a preloaded word for which the dump yielded nothing has its
\* preloaded list.
C4_ReplaceKeepsOnlyDump ==
  (LineBoundary /\ mode = "replace") =>
    \A w \in atScanStart.preloaded :
      IF YieldedFor(w) # <<>>
        THEN Get(entries, w) = KeepFirst(YieldedFor(w))
        ELSE Get(entries, w) = PreloadedList(w)

\* C4 witness: the scan is over in replace mode for a preloaded word that
\* the dump yielded on two lines, one of whose preloaded pronunciations is
\* gone and another is back because the dump yielded it.
C4_Witness ==
  /\ pc = "scanned"
  /\ mode = "replace"
  /\ \E w \in atScanStart.preloaded :
       /\ Len(YieldedFor(w)) >= 2
       /\ Range(PreloadedList(w)) \ Range(Get(entries, w)) # {}
       /\ Range(PreloadedList(w)) \cap Range(Get(entries, w)) # {}

\* C5: in every state of a build no word's list holds the same
\* pronunciation twice.
C5_NoDuplicatePronunciation ==
  \A w \in DOMAIN entries : NoRepeat(entries[w])

\* C5 witness: the dump yielded the same pair on two lines, and that pair
\* was in the preloaded dictionary too.
C5_Witness ==
  /\ LineBoundary
  /\ mode = "append"
  /\ \E i, j \in 1..Len(yielded) :
       /\ i < j
       /\ yielded[i] = yielded[j]
       /\ Key(yielded[i][1], yielded[i][2]) \in atScanStart.seen

\* C6: in every state of a build (after preload, after each line, right
\* after a replace-mode clear) seenWordPron is exactly the set of composite
\* keys of the pronunciations in entries, and its size is the sum of the
\* list lengths.
C6_SeenMatchesEntries ==
  /\ seenWordPron =
       UNION {{Key(w, entries[w][i]) : i \in 1..Len(entries[w])} : w \in DOMAIN entries}
  /\ Cardinality(seenWordPron) = SumLen(entries, DOMAIN entries)

\* C6 witness: right after a replace-mode clear of a word that had a
\* preloaded list, while another word still has its list.
C6_Witness ==
  /\ pc = "scan"
  /\ mode = "replace"
  /\ prons # <<>>
  /\ word \in replaced
  /\ PreloadedList(word) # <<>>
  /\ Get(entries, word) = <<>>
  /\ seenWordPron # {}

\* C7: scanning never adds a word to preloadedWords and never removes one.
C7_ScanKeepsPreloadedWords ==
  pc \in {"scan", "scanned"} => preloadedWords = atScanStart.preloaded

\* C7 witness: the scan is over, a preloaded word was cleared by replace
\* mode and a word was first seen in the dump.
C7_Witness ==
  /\ pc = "scanned"
  /\ replaced # {}
  /\ preloadedWords # {}
  /\ \E w \in DOMAIN entries : w \notin preloadedWords

\* The change of one word's list in a step, as the original statement of C8
\* allows it.
ListStepAsClaimed(old, new) ==
  \/ new = old
  \/ /\ mode \in {"append", "noOverride", "replace"}
     /\ new # <<>>
     /\ new = Append(old, new[Len(new)])
  \/ /\ mode = "prepend"
     /\ new # <<>>
     /\ new = <<new[1]>> \o old
  \/ /\ mode = "replace"
     /\ new = <<>>

\* The same with the addition at the end allowed to every preload step and
\* the addition at the front to the scan steps of prepend mode.
ListStepAmended(old, new) ==
  \/ new = old
  \/ /\ pc \in {"preloadGob", "preloadText"} \/ mode \in {"append", "noOverride", "replace"}
     /\ new # <<>>
     /\ new = Append(old, new[Len(new)])
  \/ /\ pc = "scan" /\ mode = "prepend"
     /\ new # <<>>
     /\ new = <<new[1]>> \o old
  \/ /\ mode = "replace"
     /\ new = <<>>

\* C8 as stated: every step of preload or scan leaves a word's list
\* unchanged, adds one pronunciation at the end (in append, no-override and
\* replace mode) or at the front (in prepend mode), or clears it (in replace
\* mode).
C8_StepsAsClaimed ==
  [][\A w \in (DOMAIN entries) \cup (DOMAIN entries') :
       ListStepAsClaimed(Get(entries, w), Get(entries', w))]_vars

\* C8 amended: every step of preload or scan leaves a word's list unchanged,
\* adds one pronunciation at the end (any preload step, and the scan steps
\* of append, no-override and replace mode) or at the front (the scan steps
\* of prepend mode) without reordering or removing the others, or, in
\* replace mode only, clears the whole list; a list is never shortened to a
\* non-empty shorter list.
C8_StepsAddOneOrClear ==
  [][\A w \in (DOMAIN entries) \cup (DOMAIN entries') :
       ListStepAmended(Get(entries, w), Get(entries', w))]_vars

\* C8 witness: in prepend mode the scan is over for a word that preload gave
\* two pronunciations and the dump a further one.
C8_Witness ==
  /\ pc = "scanned"
  /\ mode = "prepend"
  /\ \E w \in DOMAIN entries :
       /\ Len(PreloadedList(w)) >= 2
       /\ Len(entries[w]) > Len(PreloadedList(w))

\* ------------------------------------------------------------------------
\* extractPronunciationsFromLine on its own: a line with one template whose
\* parameters are drawn from ParamPool, and a language code.

ParamPool ==
  {pA, <<" ", "a", " ">>, pB, <<>>, <<"X">>, sFr, <<"F", "R", " ">>, sEn}

TemplateParams == UNION {[1..n -> ParamPool] : n \in 1..MaxParams}

ExtractLines ==
  {Bold(wM) \o <<" ">> \o Tpl(open, ps) : open \in {sPronOpen, sAPIOpen}, ps \in TemplateParams}

InitExtract ==
  /\ exportIdle
  /\ cliIdle
  /\ composeIdle
  /\ pc = "extract"
  /\ line \in ExtractLines
  /\ lang \in LangFlags \cup {<<>>}
  /\ mode = "append"
  /\ file = NoFile
  /\ entries = <<>>
  /\ seenWordPron = {}
  /\ preloadedWords = {}
  /\ pdict = <<>>
  /\ plines = <<>>
  /\ pword = <<>>
  /\ pprons = <<>>
  /\ title = <<>>
  /\ inText = FALSE
  /\ lineCount = 0
  /\ replaced = {}
  /\ word = <<>>
  /\ prons = <<>>
  /\ atScanStart = [entries |-> <<>>, seen |-> {}, preloaded |-> {}]
  /\ yielded = <<>>

\* prons := extractPronunciationsFromLine(line, lang).
Extract ==
  /\ pc = "extract"
  /\ prons' = extractPronunciationsFromLine(line, lang)
  /\ pc' = "extracted"
  /\ UNCHANGED <<cfgVars, exportVars, cliVars, composeVars, rep, preloadVars, title, inText, lineCount, replaced, line,
                 word, atScanStart, yielded>>

NextExtract == Extract

SpecExtract == InitExtract /\ [][NextExtract]_vars

\* A parameter list names the language: one parameter, trimmed and
\* lower-cased, is the language code.
NamesLanguage(parts, lg) ==
  \E i \in 1..Len(parts) : ToLower(TrimSpace(parts[i])) = lg

\* The trimmed, non-empty parameters before the first one that is the
\* language code and that hold an IPA character, without repetition.
BeforeLanguage(parts, lg) ==
  LET at == MinOf({i \in 1..Len(parts) : ToLower(TrimSpace(parts[i])) = lg})
      before == [i \in 1..(at - 1) |-> TrimSpace(parts[i])]
  IN KeepFirst(SelectSeq(before, LAMBDA p : p # <<>> /\ ContainsAny(p, Charset)))

\* C9: for a line with one pron/API template whose parameters name the
\* language (a parameter that, trimmed and lower-cased, is the language
\* code), extractPronunciationsFromLine returns exactly the trimmed,
\* non-empty parameters before the first such parameter that hold an IPA
\* character, in template order and without duplicates.
C9_ExtractsBeforeLanguage ==
  pc = "extracted" =>
    LET ms == pronTemplateRegex(line)
        parts == Split(ms[1], "|")
    IN (Len(ms) = 1 /\ NamesLanguage(parts, normLang(lang))) =>
         prons = BeforeLanguage(parts, normLang(lang))

\* C9 witness: a template that names the language was extracted from, a
\* parameter was returned and an IPA parameter after the language was not.
C9_Witness ==
  /\ pc = "extracted"
  /\ prons # <<>>
  /\ LET ms == pronTemplateRegex(line)
         parts == Split(ms[1], "|")
     IN /\ Len(ms) = 1
        /\ NamesLanguage(parts, normLang(lang))
        /\ \E i \in 1..Len(parts) :
             /\ \E j \in 1..(i - 1) : ToLower(TrimSpace(parts[j])) = normLang(lang)
             /\ ContainsAny(parts[i], Charset)
             /\ TrimSpace(parts[i]) \notin Range(prons)

\* ------------------------------------------------------------------------
\* The parameter lists of the templates of a line.
TemplatesOf(l) ==
  LET ms == pronTemplateRegex(l)
  IN {Split(ms[k], "|") : k \in 1..Len(ms)}

\* The trimmed parameters of the templates of a line that name the language.
TargetParams(l, lg) ==
  UNION {{TrimSpace(parts[i]) : i \in 1..Len(parts)} :
           parts \in {ps \in TemplatesOf(l) : NamesLanguage(ps, lg)}}

\* C10: during the scan a pronunciation enters entries only under the
\* headword of the current line and only if it is a parameter of a template
\* of that line that names the configured language; a line none of whose
\* templates names the language leaves entries, seenWordPron and
\* preloadedWords as they were.
C10_OnlyTargetLanguageTemplates ==
  [][pc = "scan" =>
       /\ \A w \in DOMAIN entries' :
            LET fresh == Range(entries'[w]) \ Range(Get(entries, w))
            IN /\ fresh \subseteq TargetParams(line', lang)
               /\ fresh # {} => w = extractHeadwordFromLine(line', title')
       /\ (lineCount' # lineCount /\ TargetParams(line', lang) = {}) =>
            /\ UNCHANGED rep
            /\ prons' = <<>>]_vars

\* C10 witness: the line just scanned holds a template of another language
\* with an IPA parameter and a template of the configured language; the
\* headword has a parameter of the latter and not that of the former.
C10_Witness ==
  /\ pc = "scan"
  /\ prons = <<>>
  /\ word # <<>>
  /\ Range(Get(entries, word)) \cap TargetParams(line, lang) # {}
  /\ \E parts \in TemplatesOf(line) :
       /\ ~NamesLanguage(parts, lang)
       /\ \E i \in 1..Len(parts) :
            /\ ContainsAny(parts[i], Charset)
            /\ TrimSpace(parts[i]) \notin TargetParams(line, lang)
            /\ TrimSpace(parts[i]) \notin Range(Get(entries, word))

\* ------------------------------------------------------------------------
\* Headwords: a dump of one line, scanned into an empty Representation.  The
\* line carries a raw headword, as a bold span or as the page title, and one
\* template of the language.

\* Length of the raw headwords drawn from RawAlphabet.
MaxRaw == 3

RawAlphabet == {"m", ".", "#", "/", " ", "[", ":", "1"}

\* Raw headwords with an interwiki prefix, a tag, an entity, a slash.
RawSamples ==
  { <<":", "f", "r", ":", "m", ".">>,
    <<":", "f", "r", ":", "#", "m">>,
    <<"<", "i", ">", "m", "<", "/", "i", ">", ";">>,
    <<"m", "&", "#", "4", "3", ";", "n">>,
    <<"&", "l", "t", ";", "m", "&", "g", "t", ";">>,
    <<" ", "[", "e", "n", "/", "o", "r", "]", ".", " ">>,
    <<"m", "(", "n", ")", "{", "k", "}", "|", TAB, "+">>,
    <<",", "m", "/", "n", "k", ":">> }

RawHeadwords == UNION {[1..n -> RawAlphabet] : n \in 1..MaxRaw} \cup RawSamples

HeadwordLines ==
  {sTextOpen \o <<">">> \o Bold(raw) \o <<" ">> \o Tpl(sPronOpen, <<pA, sFr>>) :
     raw \in RawHeadwords}
  \cup
  {sTitleOpen \o raw \o sTitleClose \o sTextOpen \o <<">">> \o Tpl(sAPIOpen, <<pA, sFr>>) :
     raw \in RawHeadwords}

InitHeadword ==
  /\ exportIdle
  /\ cliIdle
  /\ composeIdle
  /\ pc = "start"
  /\ mode = "append"
  /\ lang = sFr
  /\ file = NoFile
  /\ entries = <<>>
  /\ seenWordPron = {}
  /\ preloadedWords = {}
  /\ pdict = <<>>
  /\ plines = <<>>
  /\ pword = <<>>
  /\ pprons = <<>>
  /\ title = <<>>
  /\ inText = FALSE
  /\ lineCount = 0
  /\ replaced = {}
  /\ line = <<>>
  /\ word = <<>>
  /\ prons = <<>>
  /\ atScanStart = [entries |-> <<>>, seen |-> {}, preloaded |-> {}]
  /\ yielded = <<>>

\* scanner.Scan() of scanDump on the only line of the dump.
ScanHeadwordLine ==
  /\ pc = "scan"
  /\ prons = <<>>
  /\ lineCount = 0
  /\ \E l \in HeadwordLines : scanOneLine(l)
  /\ UNCHANGED <<pc, cfgVars, exportVars, cliVars, composeVars, preloadedWords, preloadVars, atScanStart>>

NextHeadword ==
  \/ NoPreload
  \/ ScanHeadwordLine
  \/ RecordPron
  \/ ScanEOF

SpecHeadword == InitHeadword /\ [][NextHeadword]_vars

\* The raw headword of a line: the bold span, else what is between the
\* title tags.
RawOf(l) ==
  LET m == headwordRegex(l)
  IN IF m.ok THEN m.group
     ELSE SubSeq(l, Len(sTitleOpen) + 1, Index(l, sTitleClose) - 1)

\* A key as C11 describes it.
WellFormedKey(w) ==
  /\ w # <<>>
  /\ \E i \in 1..Len(w) : w[i] \in Letters
  /\ \A i \in 1..Len(w) : w[i] \notin {" ", TAB, "[", "]", "{", "}", "+", "(", ")", "|"}
  /\ w[Len(w)] \notin {".", ",", ";", ":"}
  /\ Contains(w, <<"/">>) => Cardinality({i \in 1..Len(w) : w[i] \in Letters}) >= 3

\* C11: every key that scanDump adds to entries is non-empty, holds a
\* letter, holds none of the characters space, tab, [, ], {, }, +, (, ), |,
\* does not end in '.', ',', ';' or ':' and, when it holds '/', has at least
\* three letters; the headword being aggregated is such a key too.
C11_KeysAreNormalized ==
  /\ \A w \in DOMAIN entries : WellFormedKey(w)
  /\ prons # <<>> => WellFormedKey(word)

\* C11 witness: the scan is over and the key recorded holds a slash and is
\* not the raw headword of the line, which had markup and punctuation.
C11_Witness ==
  /\ pc = "scanned"
  /\ \E w \in DOMAIN entries :
       /\ entries[w] # <<>>
       /\ Contains(w, <<"/">>)
       /\ w # RawOf(line)
       /\ ContainsAny(RawOf(line), {"[", " ", "."})

\* C12: normalizeHeadword returns the empty string or a headword that does
\* not start with '#', so no key that starts with '#' is added to entries
\* by a scan.
C12_NoHashHeadword ==
  /\ lineCount > 0 => ~HasPrefix(normalizeHeadword(RawOf(line)), <<"#">>)
  /\ \A w \in DOMAIN entries : ~HasPrefix(w, <<"#">>)

\* ------------------------------------------------------------------------
\* Export.

\* The characters of the model in ascending byte order.
ByteOrder ==
  << NUL, TAB, " ", "#", "&", "'", "(", ")", "+", ",", ".", "/", "1", "2",
     "3", "4", ":", ";", "<", ">", "?", "A", "B", "E", "F", "I", "N", "P",
     "R", "X", "Z", "[", "]", "a", "b", "c", "d", "e", "f", "g", "h", "i",
     "j", "k", "l", "m", "n", "o", "p", "q", "r", "s", "t", "x", "z", "{",
     "|", "}" >>

CharCode(c) == CHOOSE i \in 1..Len(ByteOrder) : ByteOrder[i] = c

\* a < b on Go strings: byte-wise lexicographic.
Less(a, b) ==
  \E k \in 1..(Len(b)) :
    /\ k <= Len(a) + 1
    /\ SubSeq(a, 1, k - 1) = SubSeq(b, 1, k - 1)
    /\ k = Len(a) + 1 \/ CharCode(a[k]) < CharCode(b[k])

\* The strings of S in ascending order.
RECURSIVE ascending(_)
ascending(S) ==
  IF S = {} THEN <<>>
  ELSE LET least == CHOOSE x \in S : \A y \in S \ {x} : Less(x, y)
       IN <<least>> \o ascending(S \ {least})

\* sort.Strings(words) for distinct words.
sortStrings(ws) == ascending(Range(ws))

\* The orders in which a range over a map with the keys S may visit them.
Orders(S) ==
  {f \in [1..Cardinality(S) -> S] : \A i, j \in 1..Cardinality(S) : f[i] = f[j] => i = j}

sepPron == <<" ", "|", " ">>

\* The loop of writeTextDictionary over the sorted words: the lines written
\* (without the newline that ends each).
RECURSIVE writeLines(_, _)
writeLines(ws, e) ==
  IF ws = <<>> THEN <<>>
  ELSE IF Len(e[Head(ws)]) = 0 THEN writeLines(Tail(ws), e)
  ELSE <<Head(ws) \o <<TAB>> \o Join(e[Head(ws)], sepPron)>> \o writeLines(Tail(ws), e)

\* Mutant: the words are written in the order the map gave them.
writeTextDictionaryUnsorted(e, order) == writeLines(order, e)

\* writeTextDictionary(w, entries) when the range over the map visits the
\* words in the given order.
writeTextDictionary(e, order) == writeLines(sortStrings(order), e)

\* writeGobDictionary(w, entries): the encoded value is the map.
writeGobDictionary(e) == e

\* case "text" of runParse.
ExportText ==
  /\ pc = "scanned"
  /\ run = 1
  /\ \E order \in Orders(DOMAIN entries) :
       /\ words' = sortStrings(order)
       /\ out' = [format |-> "text", lines |-> writeTextDictionary(entries, order), dict |-> <<>>]
  /\ exported' = entries
  /\ pc' = "exported"
  /\ UNCHANGED <<cfgVars, run, cliVars, composeVars, rep, preloadVars, scanVars,
                 atScanStart, yielded>>

\* case "gob" of runParse.
ExportGob ==
  /\ pc = "scanned"
  /\ run = 1
  /\ out' = [format |-> "gob", lines |-> <<>>, dict |-> writeGobDictionary(entries)]
  /\ exported' = entries
  /\ pc' = "exported"
  /\ UNCHANGED <<cfgVars, words, run, cliVars, composeVars, rep, preloadVars, scanVars,
                 atScanStart, yielded>>

\* A second run of the tool, with --preload naming the file the first run
\* wrote: runParse starts from empty maps.
Reload ==
  /\ pc = "exported"
  /\ run = 1
  /\ run' = 2
  /\ pc' = "start"
  /\ file' = IF out.format = "gob" THEN GobFile(out.dict) ELSE TextFile(out.lines)
  /\ entries' = <<>>
  /\ seenWordPron' = {}
  /\ preloadedWords' = {}
  /\ title' = <<>>
  /\ inText' = FALSE
  /\ lineCount' = 0
  /\ replaced' = {}
  /\ line' = <<>>
  /\ word' = <<>>
  /\ prons' = <<>>
  /\ atScanStart' = [entries |-> <<>>, seen |-> {}, preloaded |-> {}]
  /\ yielded' = <<>>
  /\ UNCHANGED <<mode, lang, words, out, exported, cliVars, composeVars, preloadVars>>

\* ------------------------------------------------------------------------
\* A build followed by the export and by the preload of what was exported.

\* Number of dump lines of the build.
MaxExportLines == 2

ExportPreloadFiles ==
  { NoFile,
    GobFile((wM :> <<pA, <<" ", "a">>, <<>>, pB>>) @@ (wN :> <<>>)),
    TextFile(<< wM \o <<TAB>> \o pA \o <<" ", "|", " ">> \o pC,
                <<"#", "x">>,
                wN \o <<TAB, "|">>,
                wK >>) }

ExportDumpLines ==
  { sTextOpen \o <<">">> \o Bold(wM) \o <<" ">> \o Tpl(sPronOpen, <<pB, pA, sFr>>),
    sTextOpen \o <<">">> \o Bold(wK) \o Tpl(sPronOpen, <<pC, sFr>>),
    sTextOpen \o <<">">> \o Bold(<<".", "#", "m">>) \o <<" ">> \o Tpl(sPronOpen, <<pA, sFr>>),
    sTextOpen \o <<">">> \o Bold(<<"N">>) \o Tpl(sAPIOpen, <<pA, sFr>>),
    sTextOpen \o <<">">> \o Bold(<<"m", "k">>) \o Tpl(sPronOpen, <<pA, pC, sFr>>) }

InitExport ==
  /\ exportIdle
  /\ cliIdle
  /\ composeIdle
  /\ pc = "start"
  /\ mode \in MergeModes
  /\ lang = sFr
  /\ file \in ExportPreloadFiles
  /\ entries = <<>>
  /\ seenWordPron = {}
  /\ preloadedWords = {}
  /\ pdict = <<>>
  /\ plines = <<>>
  /\ pword = <<>>
  /\ pprons = <<>>
  /\ title = <<>>
  /\ inText = FALSE
  /\ lineCount = 0
  /\ replaced = {}
  /\ line = <<>>
  /\ word = <<>>
  /\ prons = <<>>
  /\ atScanStart = [entries |-> <<>>, seen |-> {}, preloaded |-> {}]
  /\ yielded = <<>>

\* scanner.Scan() of scanDump in the build.
ScanExportLine ==
  /\ pc = "scan"
  /\ run = 1
  /\ prons = <<>>
  /\ lineCount < MaxExportLines
  /\ \E l \in ExportDumpLines : scanOneLine(l)
  /\ UNCHANGED <<pc, cfgVars, exportVars, cliVars, composeVars, preloadedWords, preloadVars, atScanStart>>

NextExport ==
  \/ NoPreload
  \/ PreloadOpen
  \/ PreloadGobWord
  \/ PreloadGobPron
  \/ PreloadTextLine
  \/ PreloadTextPron
  \/ PreloadDone
  \/ ScanExportLine
  \/ RecordPron
  \/ ScanEOF
  \/ ExportText
  \/ ExportGob
  \/ Reload

SpecExport == InitExport /\ [][NextExport]_vars

\* The second run has preloaded the file the first run wrote.
Reloaded(format) == run = 2 /\ pc \in {"scan", "scanned"} /\ out.format = format

\* C14: writing the entries of a build with writeTextDictionary and loading
\* that output with preloadDictionary into an empty Representation gives
\* the same set of words and, for each word, the same list in the same
\* order.
C14_TextRoundTrip ==
  Reloaded("text") => entries = exported

\* C15: writing the entries of a build with writeGobDictionary and loading
\* that output through the gob branch of preloadDictionary into an empty
\* Representation gives the same keys and for each key the same list in the
\* same order, and every loaded word is in preloadedWords.
C15_GobRoundTrip ==
  Reloaded("gob") =>
    /\ DOMAIN entries = DOMAIN exported
    /\ \A w \in DOMAIN exported : entries[w] = exported[w]
    /\ DOMAIN exported \subseteq preloadedWords

\* C15 witness: the reloaded map has three words, one of them with two
\* pronunciations, and one that starts with '#'.
C15_Witness ==
  /\ Reloaded("gob")
  /\ Cardinality(DOMAIN entries) >= 3
  /\ \E w \in DOMAIN entries : Len(entries[w]) >= 2
  /\ \E w \in DOMAIN entries : HasPrefix(w, <<"#">>)

\* ------------------------------------------------------------------------
\* writeTextDictionary on its own: a map drawn from WriteMaps, lists without
\* pronunciations included.

WriteWords == {wM, <<"m", "k">>, wK, <<"N">>, <<"#", "m">>}

WriteLists == {<<>>, <<pA>>, <<pB, pA>>}

WriteMaps == UNION {[ws -> WriteLists] : ws \in SUBSET WriteWords}

InitWrite ==
  /\ exportIdle
  /\ cliIdle
  /\ composeIdle
  /\ pc = "scanned"
  /\ mode = "append"
  /\ lang = sFr
  /\ file = NoFile
  /\ entries \in WriteMaps
  /\ seenWordPron =
       UNION {{Key(w, entries[w][i]) : i \in 1..Len(entries[w])} : w \in DOMAIN entries}
  /\ preloadedWords = {}
  /\ pdict = <<>>
  /\ plines = <<>>
  /\ pword = <<>>
  /\ pprons = <<>>
  /\ title = <<>>
  /\ inText = FALSE
  /\ lineCount = 0
  /\ replaced = {}
  /\ line = <<>>
  /\ word = <<>>
  /\ prons = <<>>
  /\ atScanStart = [entries |-> <<>>, seen |-> {}, preloaded |-> {}]
  /\ yielded = <<>>

NextWrite == ExportText

SpecWrite == InitWrite /\ [][NextWrite]_vars

\* The words of a map that have a pronunciation.
Listed(e) == {w \in DOMAIN e : e[w] # <<>>}

\* C13: writeTextDictionary writes one line per word whose list is not
\* empty and none for the others, in strictly ascending byte order of the
\* words, each line being the word, a TAB and the pronunciations in stored
\* order joined by " | ", whatever the order in which the map was ranged
\* over.
C13_TextExportSorted ==
  (pc = "exported" /\ out.format = "text") =>
    /\ Len(out.lines) = Cardinality(Listed(exported))
    /\ \E ws \in [1..Len(out.lines) -> Listed(exported)] :
         /\ \A i \in 1..Len(ws) :
              out.lines[i] = ws[i] \o <<TAB>> \o Join(exported[ws[i]], <<" ", "|", " ">>)
         /\ \A i, j \in 1..Len(ws) : i < j => Less(ws[i], ws[j])

\* C13 witness: written from a map with a word without pronunciations, an
\* upper-case word, a word that is a prefix of another and a word with two
\* pronunciations.
C13_Witness ==
  /\ pc = "exported"
  /\ out.format = "text"
  /\ Len(out.lines) >= 3
  /\ \E w \in DOMAIN exported : exported[w] = <<>>
  /\ \E w \in DOMAIN exported : Len(exported[w]) = 2
  /\ {<<"N">>, wM, <<"m", "k">>} \subseteq Listed(exported)

\* ------------------------------------------------------------------------
\* The command lines of wikipa, ipadict and phonetize.  The I/O of a run is
\* recorded in events; what a dictionary or a dump holds plays no part here,
\* an open, a load or a scan succeeds or fails.

sText == <<"t", "e", "x", "t">>

sGob == <<"g", "o", "b">>

sJson == <<"j", "s", "o", "n">>

sTxt == <<"t", "x", "t">>

sHTTP == <<"h", "t", "t", "p", ":", "/", "/">>

sHTTPS == <<"h", "t", "t", "p", "s", ":", "/", "/">>

sBz2 == <<".", "b", "z", "2">>

HasSuffix(s, suf) ==
  /\ Len(suf) <= Len(s)
  /\ SubSeq(s, Len(s) - Len(suf) + 1, Len(s)) = suf

\* The statuses a server answers with.
HTTPStatuses == {200, 204, 404}

\* An I/O operation of the process.
Event(op) == [op |-> op, text |-> <<>>]

\* An open that returned a handle.
Opened(op) == [op |-> op, text |-> <<"handle">>]

\* A line on standard error, as the operands printed.
Stderr(text) == [op |-> "stderr", text |-> text]

isHTTPURL(src) == HasPrefix(src, sHTTP) \/ HasPrefix(src, sHTTPS)

hasBZ2SuffixURL(raw) ==
  LET lower == ToLower(raw)
      marks == {i \in 1..Len(lower) : lower[i] \in {"?", "#"}}
      path == IF marks = {} THEN lower ELSE SubSeq(lower, 1, MinOf(marks) - 1)
  IN HasSuffix(path, sBz2)

\* Mutant: the bzip2 wrapper has no Close of its own to pass on.
httpStreamDropsCloser(url) ==
  IF hasBZ2SuffixURL(url)
    THEN [wrapped |-> TRUE, closer |-> "none"]
    ELSE [wrapped |-> FALSE, closer |-> "body"]

\* The stream openHTTPPossiblyCompressed returns for status 200: the bzip2
\* reader with the body as its Closer, or the body itself.
httpStream(url) ==
  IF hasBZ2SuffixURL(url)
    THEN [wrapped |-> TRUE, closer |-> "body"]
    ELSE [wrapped |-> FALSE, closer |-> "body"]

\* Mutant: the bzip2 reader is returned without the file as its Closer.
localStreamDropsCloser(path) ==
  IF HasSuffix(ToLower(path), sBz2)
    THEN [wrapped |-> TRUE, closer |-> "none"]
    ELSE [wrapped |-> FALSE, closer |-> "body"]

\* The stream openLocalPossiblyCompressed returns.
localStream(path) ==
  IF HasSuffix(ToLower(path), sBz2)
    THEN [wrapped |-> TRUE, closer |-> "body"]
    ELSE [wrapped |-> FALSE, closer |-> "body"]

ParseTools == {"wikipa", "ipadict"}

\* Mutant: the replace flag is not counted.
selectedWithoutReplace(a) ==
  (IF a.merge \/ a.mergeAppend THEN 1 ELSE 0)
    + (IF a.mergePrepend THEN 1 ELSE 0)
    + (IF a.noOverride \/ a.noOveride THEN 1 ELSE 0)

\* selected of runParseFromArgs.
selected(a) ==
  (IF a.merge \/ a.mergeAppend THEN 1 ELSE 0)
    + (IF a.mergePrepend THEN 1 ELSE 0)
    + (IF a.noOverride \/ a.noOveride THEN 1 ELSE 0)
    + (IF a.replace THEN 1 ELSE 0)

\* mode of runParseFromArgs after the four tests, each of which overwrites
\* it.
modeOf(a) ==
  IF a.replace THEN "replace"
  ELSE IF a.noOverride \/ a.noOveride THEN "noOverride"
  ELSE IF a.mergePrepend THEN "prepend"
  ELSE "append"

\* The fields of parseConfig.
cfgSource(a) == TrimSpace(a.remaining[1])

cfgExportFormat(a) == TrimSpace(a.export)

\* export of runParse.
exportOf(a) ==
  LET e == IF a.tool = "ipadict"
             THEN ToLower(TrimSpace(cfgExportFormat(a)))
             ELSE ToLower(cfgExportFormat(a))
  IN IF e = <<>> THEN sText ELSE e

\* Mutant: the value of --export is not checked.
exportAcceptedAlways(e) == TRUE

\* The test of runParse on export.
exportAccepted(e) == e = sText \/ e = sGob

\* cfg.PreloadPath != "" of wikipa, len(cfg.PreloadPaths) > 0 of ipadict.
hasPreload(a) ==
  IF a.tool = "ipadict" THEN Len(a.preload) > 0 ELSE TrimSpace(a.preload) # <<>>

\* runParseFromArgs up to the call of runParse.
RunParseFromArgs ==
  /\ pc = "cli"
  /\ args.tool \in ParseTools
  /\ IF Len(args.remaining) # 1
       THEN /\ err' = "\"parse\" expects exactly one <path-or-URL> argument"
            /\ pc' = "failed"
            /\ UNCHANGED mode
       ELSE IF selected(args) > 1
         THEN /\ err' = "only one of the merge modes may be specified"
              /\ pc' = "failed"
              /\ UNCHANGED mode
         ELSE /\ mode' = modeOf(args)
              /\ pc' = "runParse"
              /\ UNCHANGED err
  /\ UNCHANGED <<lang, file, exportVars, args, exit, events, resp, composeVars, rep,
                 preloadVars, scanVars, atScanStart, yielded>>

\* runParse up to the preload.
RunParse ==
  /\ pc = "runParse"
  /\ IF cfgSource(args) = <<>>
       THEN /\ err' = "missing <path-or-URL> argument"
            /\ pc' = "failed"
            /\ UNCHANGED lang
       ELSE IF ~exportAccepted(exportOf(args))
         THEN /\ err' = "invalid --export value"
              /\ pc' = "failed"
              /\ UNCHANGED lang
         ELSE /\ lang' = normLang(TrimSpace(args.lang))
              /\ pc' = "preload"
              /\ UNCHANGED err
  /\ UNCHANGED <<mode, file, exportVars, args, exit, events, resp, composeVars, rep,
                 preloadVars, scanVars, atScanStart, yielded>>

\* The preload of runParse: preloadDictionary (wikipa) or
\* phonodict.PreloadPaths (ipadict) opens and loads the dictionaries.
\* preloadDictionary closes the file it has opened when it returns (defer
\* f.Close()), with or without an error.
RunPreload ==
  /\ pc = "preload"
  /\ IF ~hasPreload(args)
       THEN /\ pc' = "open"
            /\ UNCHANGED <<err, events>>
       ELSE IF args.tool = "wikipa"
         THEN \/ /\ events' = Append(events, Event("openDict"))
                 /\ pc' = "failed"
                 /\ err' = "preload"
              \/ /\ events' = events \o <<Opened("openDict"), Event("closeDict")>>
                 /\ \E ok \in BOOLEAN :
                      IF ok THEN pc' = "open" /\ UNCHANGED err
                      ELSE pc' = "failed" /\ err' = "preload"
         ELSE /\ events' = Append(events, Event("openDict"))
              /\ \E ok \in BOOLEAN :
                   IF ok THEN pc' = "open" /\ UNCHANGED err
                   ELSE pc' = "failed" /\ err' = "preload"
  /\ UNCHANGED <<cfgVars, exportVars, args, exit, resp, composeVars, rep,
                 preloadVars, scanVars, atScanStart, yielded>>

\* openSource of wikipa: GET and status test for a URL, os.Open for a path.
OpenSource ==
  /\ pc = "open"
  /\ args.tool = "wikipa"
  /\ LET src == cfgSource(args)
     IN IF isHTTPURL(src)
          THEN /\ events' = Append(events, Event("httpGet"))
               /\ \/ /\ err' = "open"
                     /\ pc' = "failed"
                     /\ UNCHANGED resp
                  \/ \E s \in HTTPStatuses :
                       IF s # 200
                         THEN /\ resp' = [kind |-> "http", status |-> s, body |-> "closed",
                                          closes |-> 1, stream |-> <<>>]
                              /\ err' = "open"
                              /\ pc' = "failed"
                         ELSE /\ resp' = [kind |-> "http", status |-> s, body |-> "open",
                                          closes |-> 0, stream |-> httpStream(src)]
                              /\ pc' = "scanDump"
                              /\ UNCHANGED err
          ELSE /\ events' = Append(events, Event("openDump"))
               /\ \/ /\ err' = "open"
                     /\ pc' = "failed"
                     /\ UNCHANGED resp
                  \/ /\ resp' = [kind |-> "file", status |-> 0, body |-> "open",
                                 closes |-> 0, stream |-> localStream(src)]
                     /\ pc' = "scanDump"
                     /\ UNCHANGED err
  /\ UNCHANGED <<cfgVars, exportVars, args, exit, composeVars, rep,
                 preloadVars, scanVars, atScanStart, yielded>>

\* Mutant: the error of scanDump is dropped and the export runs.
RunScanDumpIgnoresError ==
  /\ pc = "scanDump"
  /\ events' = Append(events, Event("scan"))
  /\ \E ok \in BOOLEAN :
       IF ok THEN pc' = "export" /\ UNCHANGED err
       ELSE pc' = "export" /\ err' = "scan"
  /\ UNCHANGED <<cfgVars, exportVars, args, exit, resp, composeVars, rep,
                 preloadVars, scanVars, atScanStart, yielded>>

\* The call of scanDump in runParse of wikipa.
RunScanDump ==
  /\ pc = "scanDump"
  /\ events' = Append(events, Event("scan"))
  /\ \E ok \in BOOLEAN :
       IF ok THEN pc' = "export" /\ UNCHANGED err
       ELSE pc' = "closing" /\ err' = "scan"
  /\ UNCHANGED <<cfgVars, exportVars, args, exit, resp, composeVars, rep,
                 preloadVars, scanVars, atScanStart, yielded>>

\* parser.ParseSource of ipadict: opens the source and scans it.
ParseSource ==
  /\ pc = "open"
  /\ args.tool = "ipadict"
  /\ events' = Append(events, Event("parseSource"))
  /\ \E ok \in BOOLEAN :
       IF ok THEN pc' = "export" /\ UNCHANGED err
       ELSE pc' = "failed" /\ err' = "scan"
  /\ UNCHANGED <<cfgVars, exportVars, args, exit, resp, composeVars, rep,
                 preloadVars, scanVars, atScanStart, yielded>>

\* The switch on export of runParse and the closing line on standard error.
RunExport ==
  /\ pc = "export"
  /\ LET after == IF args.tool = "wikipa" THEN "closing" ELSE "returned"
         done == Stderr(<<"Finished.">>)
     IN IF exportOf(args) \in {sText, sGob}
          THEN \/ /\ events' = events \o <<Event("stdout"), done>>
                  /\ pc' = after
                  /\ UNCHANGED err
               \/ /\ events' = Append(events, Event("stdout"))
                  /\ err' = "write"
                  /\ pc' = after
          ELSE /\ events' = Append(events, done)
               /\ pc' = after
               /\ UNCHANGED err
  /\ UNCHANGED <<cfgVars, exportVars, args, exit, resp, composeVars, rep,
                 preloadVars, scanVars, atScanStart, yielded>>

\* defer reader.Close() of runParse of wikipa.
ReaderClose ==
  /\ pc = "closing"
  /\ events' = Append(events, Event("closeReader"))
  /\ resp' = [resp EXCEPT !.body = IF resp.stream.closer = "body" THEN "closed" ELSE @,
                           !.closes = IF resp.stream.closer = "body" THEN @ + 1 ELSE @]
  /\ pc' = "returned"
  /\ UNCHANGED <<cfgVars, exportVars, args, err, exit, composeVars, rep,
                 preloadVars, scanVars, atScanStart, yielded>>

\* main after runParseFromArgs: log.Fatal(err) or the normal end.
MainExit ==
  /\ pc \in {"failed", "returned"}
  /\ IF err # ""
       THEN /\ events' = Append(events, Stderr(<<err>>))
            /\ exit' = 1
       ELSE /\ exit' = 0
            /\ UNCHANGED events
  /\ pc' = "exited"
  /\ UNCHANGED <<cfgVars, exportVars, args, err, resp, composeVars, rep,
                 preloadVars, scanVars, atScanStart, yielded>>

\* ------------------------------------------------------------------------
\* phonetize.

\* Mutant: a value of white space counts as given.
givenUntrimmed(v) == v # <<>>

\* strings.TrimSpace(*flag) != "".
given(v) == TrimSpace(v) # <<>>

\* outputMode of main.
outputModeOf(a) ==
  LET o == ToLower(TrimSpace(a.output))
  IN IF o = <<>> THEN sJson ELSE o

\* failf after the I/O evs: the message on standard error, then os.Exit(1).
failf(evs, msg) ==
  /\ events' = Append(evs, Stderr(<<"phonetize:", msg>>))
  /\ err' = msg
  /\ exit' = 1
  /\ pc' = "exited"

\* main of phonetize up to the loading of the dictionaries.
PhonetizeValidate ==
  /\ pc = "cli"
  /\ args.tool = "phonetize"
  /\ LET hasFile == given(args.file)
         hasSentence == given(args.sentence)
     IN IF ~given(args.loadDict)
          THEN failf(events, "missing required flag: --load-dict <dict path>")
          ELSE IF hasFile = hasSentence
            THEN failf(events, "you must specify exactly one of --file or --sentence")
            ELSE IF outputModeOf(args) # sJson /\ outputModeOf(args) # sTxt
              THEN failf(events, "invalid --output value")
              ELSE /\ pc' = "loadDict"
                   /\ UNCHANGED <<err, exit, events>>
  /\ UNCHANGED <<cfgVars, exportVars, args, resp, composeVars, rep,
                 preloadVars, scanVars, atScanStart, yielded>>

\* loadDictionaryFromPath for the main dictionary and, when
\* --load-final-dict is given, for the final one.
PhonetizeLoad ==
  /\ pc = "loadDict"
  /\ LET one == Append(events, Event("openDict"))
         two == Append(one, Event("openDict"))
     IN \/ failf(one, "failed to load main dictionary")
        \/ /\ ~given(args.loadFinalDict)
           /\ events' = one
           /\ pc' = "readInput"
           /\ UNCHANGED <<err, exit>>
        \/ /\ given(args.loadFinalDict)
           /\ \/ failf(two, "failed to load final dictionary")
              \/ /\ events' = two
                 /\ pc' = "readInput"
                 /\ UNCHANGED <<err, exit>>
  /\ UNCHANGED <<cfgVars, exportVars, args, resp, composeVars, rep,
                 preloadVars, scanVars, atScanStart, yielded>>

\* readInputText and d.Scan.
PhonetizeRead ==
  /\ pc = "readInput"
  /\ IF given(args.file)
       THEN LET read == Append(events, Event("readFile"))
            IN \/ failf(read, "failed to read input file")
               \/ /\ events' = read
                  /\ pc' = "output"
                  /\ UNCHANGED <<err, exit>>
       ELSE /\ pc' = "output"
            /\ UNCHANGED <<err, exit, events>>
  /\ UNCHANGED <<cfgVars, exportVars, args, resp, composeVars, rep,
                 preloadVars, scanVars, atScanStart, yielded>>

\* The switch on outputMode and the end of main.
PhonetizeOutput ==
  /\ pc = "output"
  /\ \/ /\ outputModeOf(args) = sJson
        /\ failf(events, "failed to encode result as JSON")
     \/ /\ events' = Append(events, Event("stdout"))
        /\ exit' = 0
        /\ pc' = "exited"
        /\ UNCHANGED err
  /\ UNCHANGED <<cfgVars, exportVars, args, resp, composeVars, rep,
                 preloadVars, scanVars, atScanStart, yielded>>

\* ------------------------------------------------------------------------
\* The runs of the three tools on the command lines of CommandLines.

BlankOrNot(v) == {<<>>, <<" ">>, v}

ExportFlags == {<<>>, <<"t", "E", "X", "t">>, <<" ", "g", "o", "b">>, <<"x", "m", "l">>}

SourceArgs ==
  { <<>>,
    << <<" ">> >>,
    << <<"d">> >>,
    << <<"d">>, <<"d">> >>,
    << <<"d", ".", "B", "z", "2">> >>,
    << sHTTP \o <<"h">> >>,
    << sHTTPS \o <<"h", "/", "x", ".", "B", "Z", "2", "?", "r">> >> }

ParseCommandLines(tool, preloads) ==
  [ tool : {tool},
    merge : BOOLEAN, mergeAppend : BOOLEAN, mergePrepend : BOOLEAN,
    noOverride : BOOLEAN, noOveride : BOOLEAN, replace : BOOLEAN,
    export : ExportFlags,
    preload : preloads,
    lang : {sFr},
    remaining : SourceArgs ]

PhonetizeCommandLines ==
  [ tool : {"phonetize"},
    loadDict : BlankOrNot(<<"p">>),
    loadFinalDict : {<<>>, <<"q">>},
    file : BlankOrNot(<<"f">>),
    sentence : BlankOrNot(<<"m">>),
    output : {<<>>, sJson, <<"t", "X", "t">>, <<"x", "m", "l">>} ]

CommandLines ==
  ParseCommandLines("wikipa", {<<>>, <<"p">>})
    \cup ParseCommandLines("ipadict", {<<>>, << <<"p">>, <<"q">> >>})
    \cup PhonetizeCommandLines

InitCLI ==
  /\ exportIdle
  /\ composeIdle
  /\ pc = "cli"
  /\ args \in CommandLines
  /\ err = ""
  /\ exit = -1
  /\ events = <<>>
  /\ resp = <<>>
  /\ mode = "append"
  /\ lang = sFr
  /\ file = NoFile
  /\ entries = <<>>
  /\ seenWordPron = {}
  /\ preloadedWords = {}
  /\ pdict = <<>>
  /\ plines = <<>>
  /\ pword = <<>>
  /\ pprons = <<>>
  /\ title = <<>>
  /\ inText = FALSE
  /\ lineCount = 0
  /\ replaced = {}
  /\ line = <<>>
  /\ word = <<>>
  /\ prons = <<>>
  /\ atScanStart = [entries |-> <<>>, seen |-> {}, preloaded |-> {}]
  /\ yielded = <<>>

NextCLI ==
  \/ RunParseFromArgs
  \/ RunParse
  \/ RunPreload
  \/ OpenSource
  \/ RunScanDump
  \/ ParseSource
  \/ RunExport
  \/ ReaderClose
  \/ MainExit
  \/ PhonetizeValidate
  \/ PhonetizeLoad
  \/ PhonetizeRead
  \/ PhonetizeOutput

SpecCLI == InitCLI /\ [][NextCLI]_vars

\* ------------------------------------------------------------------------
\* Vocabulary of the properties of the command lines.

\* The operations that open a file, issue a request, read or scan an input
\* or write to standard output.
IOOps == {"openDict", "openDump", "httpGet", "parseSource", "scan", "readFile", "stdout"}

NoIO == \A i \in 1..Len(events) : events[i].op \notin IOOps

Did(op) == \E i \in 1..Len(events) : events[i].op = op

\* The merge-mode flags given on the command line.
FlagsGiven(a) ==
  {f \in {"merge", "mergeAppend", "mergePrepend", "noOverride", "noOveride", "replace"} : a[f]}

\* The mode a flag names.
ModeNamed(f) ==
  CASE f \in {"merge", "mergeAppend"} -> "append"
    [] f = "mergePrepend" -> "prepend"
    [] f \in {"noOverride", "noOveride"} -> "noOverride"
    [] f = "replace" -> "replace"

\* The modes the flags given name.
ModesGiven(a) == {ModeNamed(f) : f \in FlagsGiven(a)}

\* C16 as stated: in wikipa and ipadict, when more than one of the six
\* merge-mode flags is given runParseFromArgs returns an error and the run
\* does no preload, scan or export; when exactly one is given the mode is
\* the one it names, and when none is given the mode is append.
C16_OneFlagOnly ==
  (args.tool \in ParseTools /\ pc # "cli") =>
    /\ Cardinality(FlagsGiven(args)) > 1 => (err # "" /\ NoIO)
    /\ (Cardinality(FlagsGiven(args)) = 1 /\ pc = "runParse") =>
         \A f \in FlagsGiven(args) : mode = ModeNamed(f)
    /\ (FlagsGiven(args) = {} /\ pc = "runParse") => mode = "append"

\* C16 amended: in wikipa and ipadict, when the flags given name more than
\* one merge mode (--merge and --merge-append both name append,
\* --no-override and --no-overide both name no-override) runParseFromArgs
\* returns an error and the run does no preload, scan or export; when they
\* name exactly one mode, by one flag or by both flags of a pair, that is
\* the mode, and when none is given the mode is append.
C16_OneModeOnly ==
  (args.tool \in ParseTools /\ pc # "cli") =>
    /\ Cardinality(ModesGiven(args)) > 1 => (err # "" /\ NoIO)
    /\ (Cardinality(ModesGiven(args)) = 1 /\ pc = "runParse") => ModesGiven(args) = {mode}
    /\ (FlagsGiven(args) = {} /\ pc = "runParse") => mode = "append"

\* C16 witness: a run with one source, a preload and a valid export ended
\* on the merge-mode error because --merge, --merge-append and --replace
\* were given.
C16_Witness ==
  /\ pc = "exited"
  /\ args.tool \in ParseTools
  /\ {"merge", "mergeAppend", "replace"} \subseteq FlagsGiven(args)
  /\ Len(args.remaining) = 1
  /\ hasPreload(args)
  /\ err = "only one of the merge modes may be specified"
  /\ exit = 1
  /\ NoIO

\* The errors of invalid usage.
UsageErrors ==
  { "\"parse\" expects exactly one <path-or-URL> argument",
    "only one of the merge modes may be specified",
    "missing <path-or-URL> argument",
    "invalid --export value",
    "missing required flag: --load-dict <dict path>",
    "you must specify exactly one of --file or --sentence",
    "invalid --output value" }

\* A command line with one of the usage faults C17 lists.
InvalidUsage(a) ==
  IF a.tool \in ParseTools
    THEN \/ a.remaining = <<>>
         \/ Len(a.remaining) = 1 /\ TrimSpace(a.remaining[1]) = <<>>
         \/ ToLower(TrimSpace(a.export)) \notin {<<>>, sText, sGob}
         \/ Cardinality(ModesGiven(a)) > 1
    ELSE \/ TrimSpace(a.loadDict) = <<>>
         \/ (TrimSpace(a.file) = <<>>) = (TrimSpace(a.sentence) = <<>>)
         \/ ToLower(TrimSpace(a.output)) \notin {<<>>, sJson, sTxt}

\* C17: when an error of invalid usage is raised no dictionary or dump has
\* been opened, no HTTP request issued and nothing written to standard
\* output, and the process ends with a non-zero status; a command line with
\* one of the usage faults never gets to any of that I/O.
C17_UsageErrorsBeforeIO ==
  /\ err \in UsageErrors => (NoIO /\ exit # 0 /\ (pc = "exited" => exit = 1))
  /\ InvalidUsage(args) => (NoIO /\ (pc = "exited" => exit = 1))

\* C17 witness: wikipa was given a URL, a preload and --export xml and has
\* ended on the export error with status 1 and one line on standard error.
C17_Witness ==
  /\ pc = "exited"
  /\ args.tool = "wikipa"
  /\ Len(args.remaining) = 1
  /\ isHTTPURL(cfgSource(args))
  /\ hasPreload(args)
  /\ err = "invalid --export value"
  /\ exit = 1
  /\ Len(events) = 1
  /\ events[1].op = "stderr"

\* C18: openSource on a URL returns an error for every status other than
\* 200 with the response body closed, and the run then does no scan and no
\* export and ends with status 1; for status 200, once the stream returned
\* has been closed the response body is closed, with the bzip2 wrapper and
\* without.
C18_HTTPStatusAndClose ==
  ("status" \in DOMAIN resp /\ resp.kind = "http") =>
    /\ resp.status # 200 =>
         /\ err = "open"
         /\ resp.body = "closed"
         /\ ~Did("scan")
         /\ ~Did("stdout")
         /\ pc = "exited" => exit = 1
    /\ (resp.status = 200 /\ Did("closeReader")) => resp.body = "closed"

\* C18 witness: after a preload the server answered 204 to the GET; the
\* run has ended with status 1, the body closed.
C18_Witness ==
  /\ pc = "exited"
  /\ "status" \in DOMAIN resp
  /\ resp.status = 204
  /\ resp.body = "closed"
  /\ Did("openDict")
  /\ Did("httpGet")
  /\ exit = 1

\* C19: phonetize gets to loading a dictionary, reading the input or
\* writing to standard output only when exactly one of --file and
\* --sentence has a value that is not white space; with both or neither it
\* writes one 'phonetize: ...' line to standard error and exits with status
\* 1 without any of that.
C19_ExactlyOneInput ==
  args.tool = "phonetize" =>
    LET hasFile == TrimSpace(args.file) # <<>>
        hasSentence == TrimSpace(args.sentence) # <<>>
    IN /\ ~NoIO => hasFile # hasSentence
       /\ (hasFile = hasSentence /\ pc # "cli") =>
            /\ pc = "exited"
            /\ exit = 1
            /\ Len(events) = 1
            /\ events[1].op = "stderr"
            /\ events[1].text[1] = "phonetize:"

\* C19 witness: phonetize was given a dictionary, a valid output, --file
\* and --sentence, and has exited on the error.
C19_Witness ==
  /\ pc = "exited"
  /\ args.tool = "phonetize"
  /\ args.loadDict = <<"p">>
  /\ args.file = <<"f">>
  /\ args.sentence = <<"m">>
  /\ args.output = sJson
  /\ err = "you must specify exactly one of --file or --sentence"
  /\ exit = 1

\* ------------------------------------------------------------------------
\* composeText of phonetize.

\* Number of fragments, and of raw spans, of a result.
MaxSegs == 2

\* Largest rune offset of a segment.
MaxPos == 2

\* The transcription of the k-th fragment and the text of the k-th raw span.
FragmentIPA == <<pA, pB, pC, <<"e">>, <<"f">>>>

RawText == <<<<"x">>, <<"k">>, <<"n">>, <<"m">>, <<"t">>>>

\* The results of d.Scan: every choice of offsets for up to MaxSegs
\* fragments and up to MaxSegs raw spans.
Results ==
  UNION {UNION {{[Fragments |-> [k \in 1..nf |-> [Pos |-> fp[k], IPA |-> FragmentIPA[k]]],
                  RawTexts |-> [k \in 1..nr |-> [Pos |-> rp[k], Text |-> RawText[k]]]] :
                    fp \in [1..nf -> 0..MaxPos], rp \in [1..nr -> 0..MaxPos]} :
                  nr \in 0..MaxSegs} : nf \in 0..MaxSegs}

InitCompose ==
  /\ exportIdle
  /\ cliIdle
  /\ pc = "compose"
  /\ res \in Results
  /\ segs = <<>>
  /\ si = 0
  /\ sj = 0
  /\ mode = "append"
  /\ lang = sFr
  /\ file = NoFile
  /\ entries = <<>>
  /\ seenWordPron = {}
  /\ preloadedWords = {}
  /\ pdict = <<>>
  /\ plines = <<>>
  /\ pword = <<>>
  /\ pprons = <<>>
  /\ title = <<>>
  /\ inText = FALSE
  /\ lineCount = 0
  /\ replaced = {}
  /\ line = <<>>
  /\ word = <<>>
  /\ prons = <<>>
  /\ atScanStart = [entries |-> <<>>, seen |-> {}, preloaded |-> {}]
  /\ yielded = <<>>

\* The two loops that fill segs.
collectSegs(r) ==
  [k \in 1..Len(r.Fragments) |-> [pos |-> r.Fragments[k].Pos, text |-> r.Fragments[k].IPA]]
    \o [k \in 1..Len(r.RawTexts) |-> [pos |-> r.RawTexts[k].Pos, text |-> r.RawTexts[k].Text]]

\* Mutant: segments of equal offset are swapped too.
outOfOrderOrEqual(a, b) == a.pos >= b.pos

\* segs[j-1].pos > segs[j].pos.
outOfOrder(a, b) == a.pos > b.pos

\* composeText up to the sort: segs is filled; i := 1 when there is more
\* than one segment.
ComposeCollect ==
  /\ pc = "compose"
  /\ segs' = collectSegs(res)
  /\ IF Len(collectSegs(res)) > 1
       THEN si' = 1 /\ pc' = "sortOuter"
       ELSE si' = 0 /\ pc' = "join"
  /\ UNCHANGED <<cfgVars, exportVars, cliVars, res, sj, rep, preloadVars, scanVars,
                 atScanStart, yielded>>

\* for i := 1; i < len(segs); i++ { j := i (si and sj hold the indices of
\* the code, which count from 0; segs[j] of the code is segs[sj + 1] here).
SortOuter ==
  /\ pc = "sortOuter"
  /\ IF si < Len(segs)
       THEN sj' = si /\ pc' = "sortInner"
       ELSE sj' = sj /\ pc' = "join"
  /\ UNCHANGED <<cfgVars, exportVars, cliVars, res, segs, si, rep, preloadVars, scanVars,
                 atScanStart, yielded>>

\* for j > 0 && segs[j-1].pos > segs[j].pos { swap; j-- }, one turn, or
\* the end of the inner loop and i++.
SortInner ==
  /\ pc = "sortInner"
  /\ IF sj > 0 /\ outOfOrder(segs[sj], segs[sj + 1])
       THEN /\ segs' = [segs EXCEPT ![sj] = segs[sj + 1], ![sj + 1] = segs[sj]]
            /\ sj' = sj - 1
            /\ UNCHANGED <<si, pc>>
       ELSE /\ si' = si + 1
            /\ pc' = "sortOuter"
            /\ UNCHANGED <<segs, sj>>
  /\ UNCHANGED <<cfgVars, exportVars, cliVars, res, rep, preloadVars, scanVars,
                 atScanStart, yielded>>

\* The texts of the segments one after another.
RECURSIVE concatTexts(_)
concatTexts(ss) ==
  IF ss = <<>> THEN <<>> ELSE Head(ss).text \o concatTexts(Tail(ss))

\* The strings.Builder loop; the text is what main prints.
ComposeJoin ==
  /\ pc = "join"
  /\ out' = concatTexts(segs)
  /\ pc' = "composed"
  /\ UNCHANGED <<cfgVars, words, exported, run, cliVars, composeVars, rep, preloadVars,
                 scanVars, atScanStart, yielded>>

NextCompose ==
  \/ ComposeCollect
  \/ SortOuter
  \/ SortInner
  \/ ComposeJoin

SpecCompose == InitCompose /\ [][NextCompose]_vars

\* The list 'fragments followed by raw spans' of a result.
Combined(r) ==
  [k \in 1..Len(r.Fragments) |-> [pos |-> r.Fragments[k].Pos, text |-> r.Fragments[k].IPA]]
    \o [k \in 1..Len(r.RawTexts) |-> [pos |-> r.RawTexts[k].Pos, text |-> r.RawTexts[k].Text]]

\* The place of the k-th element of list in the stable sort by pos.
Rank(list, k) ==
  1 + Cardinality({m \in 1..Len(list) :
                     \/ list[m].pos < list[k].pos
                     \/ list[m].pos = list[k].pos /\ m < k})

\* The stable sort of list by pos ascending.
StableByPos(list) ==
  [r \in 1..Len(list) |-> list[CHOOSE k \in 1..Len(list) : Rank(list, k) = r]]

\* C20: composeText returns the texts of all fragments and raw spans in the
\* order of the stable sort by offset of the list 'fragments followed by
\* raw spans': each segment once, smaller offsets first, on equal offsets
\* fragments before raw spans and each collection in its own order.
C20_ComposeIsStableSort ==
  /\ pc \in {"join", "composed"} => segs = StableByPos(Combined(res))
  /\ pc = "composed" => out = concatTexts(StableByPos(Combined(res)))

\* C20 witness: the sort moved a segment, a raw span and a fragment have
\* the same offset, and two fragments have the same offset.
C20_Witness ==
  /\ pc = "composed"
  /\ segs # Combined(res)
  /\ \E f \in 1..Len(res.Fragments), r \in 1..Len(res.RawTexts) :
       res.Fragments[f].Pos = res.RawTexts[r].Pos
  /\ \E f, g \in 1..Len(res.Fragments) : f # g /\ res.Fragments[f].Pos = res.Fragments[g].Pos

\* ------------------------------------------------------------------------
\* main of ipadict: the dispatch on os.Args[1] and the flag set of
\* runParseFromArgs.  While pc = "main", args holds the tool and argv, the
\* words after the program name.

sHelp == <<"h", "e", "l", "p">>

sParse == <<"p", "a", "r", "s", "e">>

sExport == <<"e", "x", "p", "o", "r", "t">>

sPreload == <<"p", "r", "e", "l", "o", "a", "d">>

sLang == <<"l", "a", "n", "g">>

sMerge == <<"m", "e", "r", "g", "e">>

sReplace == <<"r", "e", "p", "l", "a", "c", "e">>

\* The boolean flags of the flag set and the variable each one sets.
BoolFlags ==
  (sMerge :> "merge")
    @@ (sMerge \o <<"-", "a", "p", "p", "e", "n", "d">> :> "mergeAppend")
    @@ (sMerge \o <<"-", "p", "r", "e", "p", "e", "n", "d">> :> "mergePrepend")
    @@ (<<"n", "o", "-", "o", "v", "e", "r", "r", "i", "d", "e">> :> "noOverride")
    @@ (<<"n", "o", "-", "o", "v", "e", "r", "i", "d", "e">> :> "noOveride")
    @@ (sReplace :> "replace")

\* The name of the flag that sets a variable.
BoolFlagName(field) == CHOOSE n \in DOMAIN BoolFlags : BoolFlags[n] = field

\* The flags that take a value.
ValueFlags == {sExport, sPreload, sLang}

\* The values of the flags before fs.Parse.
FlagDefaults ==
  [ merge |-> FALSE, mergeAppend |-> FALSE, mergePrepend |-> FALSE,
    noOverride |-> FALSE, noOveride |-> FALSE, replace |-> FALSE,
    export |-> sText, preload |-> <<>>, lang |-> sFr ]

\* Set of a value flag: --preload appends to its list, the others replace
\* their value.
setFlag(fl, name, v) ==
  IF name = sPreload THEN [fl EXCEPT !.preload = Append(@, v)]
  ELSE IF name = sExport THEN [fl EXCEPT !.export = v]
  ELSE [fl EXCEPT !.lang = v]

\* The flag set meets a name it does not define.
flagUndefined(name) ==
  IF name \in {sHelp, <<"h">>} THEN "help" ELSE "flag provided but not defined"

\* fs.Parse(ws) of the flag package, for words without '=': the flags set,
\* the words left over, and the error ("help" for flag.ErrHelp).
RECURSIVE flagParse(_, _)
flagParse(ws, fl) ==
  IF ws = <<>> THEN [err |-> "", flags |-> fl, rest |-> <<>>]
  ELSE
    LET s == Head(ws)
        name == IF Len(s) >= 2 /\ s[2] = "-" THEN SubSeq(s, 3, Len(s)) ELSE Tail(s)
    IN IF Len(s) < 2 \/ s[1] # "-" THEN [err |-> "", flags |-> fl, rest |-> ws]
       ELSE IF s = <<"-", "-">> THEN [err |-> "", flags |-> fl, rest |-> Tail(ws)]
       ELSE IF name[1] \in {"-", "="} THEN [err |-> "bad flag syntax", flags |-> fl, rest |-> ws]
       ELSE IF name \in DOMAIN BoolFlags
         THEN flagParse(Tail(ws), [fl EXCEPT ![BoolFlags[name]] = TRUE])
       ELSE IF name \in ValueFlags
         THEN IF Len(ws) < 2
                THEN [err |-> "flag needs an argument", flags |-> fl, rest |-> Tail(ws)]
                ELSE flagParse(Tail(Tail(ws)), setFlag(fl, name, ws[2]))
       ELSE [err |-> flagUndefined(name), flags |-> fl, rest |-> Tail(ws)]

\* The command words that print the help.
HelpWords == {sHelp, <<"-", "h">>, <<"-", "-">> \o sHelp}

\* case "parse" of main.
isParseCommand(w) == w = sParse

\* main of ipadict up to the end of fs.Parse in runParseFromArgs.
IpadictMain ==
  /\ pc = "main"
  /\ args.tool = "ipadict"
  /\ LET a == args.argv
         ws == IF a # <<>> /\ a[1] = sParse THEN Tail(a) ELSE a
         r == flagParse(ws, FlagDefaults)
     IN IF Len(a) < 1
          THEN /\ events' = Append(events, Stderr(<<"usage">>))
               /\ exit' = 1
               /\ pc' = "exited"
               /\ UNCHANGED <<args, err>>
        ELSE IF a[1] \in HelpWords
          THEN /\ events' = Append(events, Event("usage"))
               /\ exit' = 0
               /\ pc' = "exited"
               /\ UNCHANGED <<args, err>>
        ELSE IF isParseCommand(a[1])
          THEN IF r.err = "help"
                 THEN /\ events' = Append(events, Event("usage"))
                      /\ pc' = "returned"
                      /\ UNCHANGED <<args, err, exit>>
               ELSE IF r.err # ""
                 THEN /\ events' = Append(events, Stderr(<<r.err, "usage">>))
                      /\ err' = r.err
                      /\ pc' = "failed"
                      /\ UNCHANGED <<args, exit>>
               ELSE /\ args' = [tool |-> "ipadict", argv |-> a, remaining |-> r.rest,
                                merge |-> r.flags.merge, mergeAppend |-> r.flags.mergeAppend,
                                mergePrepend |-> r.flags.mergePrepend,
                                noOverride |-> r.flags.noOverride,
                                noOveride |-> r.flags.noOveride,
                                replace |-> r.flags.replace, export |-> r.flags.export,
                                preload |-> r.flags.preload, lang |-> r.flags.lang]
                    /\ pc' = "cli"
                    /\ UNCHANGED <<err, exit, events>>
        ELSE /\ events' = events \o <<Stderr(<<"Unknown subcommand">>), Stderr(<<"usage">>)>>
             /\ exit' = 1
             /\ pc' = "exited"
             /\ UNCHANGED <<args, err>>
  /\ UNCHANGED <<cfgVars, exportVars, resp, composeVars, rep, preloadVars, scanVars,
                 atScanStart, yielded>>

\* The command lines of ipadict, without the program name.
sD == <<"d">>

Flag(name) == <<"-", "-">> \o name

IpadictArgvs ==
  { <<>>,
    <<sHelp>>,
    <<<<"-", "h">>>>,
    <<Flag(sHelp)>>,
    <<sParse>>,
    <<sParse, sD>>,
    <<sParse, <<"-", "h">>>>,
    <<sParse, Flag(sLang), sFr, sD>>,
    <<sParse, <<"-", "l", "a", "n", "g">>, sFr, Flag(sReplace), sD>>,
    <<sParse, Flag(sPreload), <<"p">>, Flag(sPreload), <<"q">>, Flag(sExport), sGob, sD>>,
    <<sParse, Flag(sReplace), Flag(sMerge), sD>>,
    <<sParse, Flag(sExport), <<"x", "m", "l">>, sD>>,
    <<sParse, Flag(sLang)>>,
    <<sParse, <<"-", "-">>, Flag(sLang)>>,
    <<sParse, <<"-", "-", "-", "x">>, sD>>,
    <<sParse, sD, Flag(sReplace)>>,
    <<sParse, Flag(sParse), sD>>,
    <<Flag(sLang), sFr, Flag(sParse), sD>>,
    <<Flag(sParse), sD>>,
    <<Flag(sPreload), <<"p">>, Flag(sParse), sD, Flag(sParse), <<"q">>>>,
    <<Flag(sReplace), Flag(sParse), sD>>,
    <<<<"b", "u", "i", "l", "d">>, sD>>,
    <<sParse, <<" ">>>>,
    <<sParse, Flag(sExport), <<" ", "G", "o", "b">>, Flag(sMerge), sHTTP \o sD>>,
    <<sParse, Flag(sPreload), <<"p">>, Flag(BoolFlagName("noOveride")), sD>>,
    <<sParse, Flag(BoolFlagName("mergePrepend")), Flag(BoolFlagName("mergeAppend")), sD>>,
    <<sParse, Flag(BoolFlagName("noOverride")), sD, sD>>,
    <<sD>> }

InitMain ==
  /\ exportIdle
  /\ composeIdle
  /\ pc = "main"
  /\ args \in {[tool |-> "ipadict", argv |-> a] : a \in IpadictArgvs}
  /\ err = ""
  /\ exit = -1
  /\ events = <<>>
  /\ resp = <<>>
  /\ mode = "append"
  /\ lang = sFr
  /\ file = NoFile
  /\ entries = <<>>
  /\ seenWordPron = {}
  /\ preloadedWords = {}
  /\ pdict = <<>>
  /\ plines = <<>>
  /\ pword = <<>>
  /\ pprons = <<>>
  /\ title = <<>>
  /\ inText = FALSE
  /\ lineCount = 0
  /\ replaced = {}
  /\ line = <<>>
  /\ word = <<>>
  /\ prons = <<>>
  /\ atScanStart = [entries |-> <<>>, seen |-> {}, preloaded |-> {}]
  /\ yielded = <<>>

NextMain ==
  \/ IpadictMain
  \/ RunParseFromArgs
  \/ RunParse
  \/ RunPreload
  \/ ParseSource
  \/ RunExport
  \/ MainExit

SpecMain == InitMain /\ [][NextMain]_vars

\* The first word of the command line is a flag other than -h and --help.
FlagFirst(a) == a # <<>> /\ HasPrefix(a[1], <<"-">>) /\ a[1] \notin HelpWords

\* The run was rejected as an unknown subcommand.
UnknownSubcommand ==
  \E i \in 1..Len(events) : events[i] = Stderr(<<"Unknown subcommand">>)

\* C21: an invocation of ipadict whose first argument is a flag other than
\* -h and --help is not rejected as an unknown subcommand: it gets to the
\* flag set and, with valid flags, to the build.
C21_NoSubcommand ==
  (args.tool = "ipadict" /\ FlagFirst(args.argv)) =>
    /\ ~UnknownSubcommand
    /\ pc = "exited" => (exit = 0 \/ err # "")

\* ------------------------------------------------------------------------
\* a is a prefix of b.
IsPrefixOf(a, b) == Len(a) <= Len(b) /\ SubSeq(b, 1, Len(a)) = a

\* C22: in replace mode a step of the scan either extends the list of a
\* word at its end or is the discard of the list of a preloaded word; the
\* discard happens on a line that yields pronunciations for the word, when
\* no earlier line of the scan yielded any for it and the word was not yet
\* marked replaced, and marks it, so it happens at most once per word and
\* never removes a pronunciation recorded from the dump.
C22_ReplaceDiscardsOnce ==
  [][ (mode = "replace" /\ pc = "scan") =>
        \A w \in DOMAIN entries :
          \/ IsPrefixOf(entries[w], Get(entries', w))
          \/ /\ Get(entries', w) = <<>>
             /\ w \in preloadedWords
             /\ w \notin replaced
             /\ w \in replaced'
             /\ YieldedFor(w) = <<>>
             /\ prons' # <<>>
             /\ word' = w ]_vars

\* C22 witness: in replace mode the preloaded list of m was discarded and
\* two lines of the dump have each added a pronunciation to the new list.
C22_Witness ==
  /\ mode = "replace"
  /\ LineBoundary
  /\ wM \in replaced
  /\ PreloadedList(wM) # <<>>
  /\ Get(entries, wM) \in {<<pA, pB>>, <<pB, pA>>}
  /\ lineCount >= 2

\* ------------------------------------------------------------------------
\* The markers of scanDump: dumps whose lines open and close text nodes,
\* carry titles, and carry or lack templates.

\* Number of lines of such a dump.
MaxMarkerLines == 3

sTitleLineM == sTitleOpen \o wM \o sTitleClose

MarkerLines ==
  { \* text markers
    sTextOpen \o <<">">>,
    sTextClose,
    sTextOpen \o <<">">> \o Bold(wM) \o Tpl(sPronOpen, <<pA, sFr>>) \o sTextClose,
    sTextClose \o sTextOpen \o <<">">> \o Bold(wN) \o Tpl(sPronOpen, <<pA, sFr>>),
    sTextOpen \o <<">">> \o Bold(wK) \o Tpl(sPronOpen, <<pB, sFr>>),
    Bold(wN) \o Tpl(sPronOpen, <<pC, sFr>>) \o sTextClose,
    Bold(wM) \o <<" ">> \o Tpl(sPronOpen, <<pB, sFr>>),
    \* no template
    Bold(wM) \o <<" ", "{", "{", "p", "r", "o", "n", " ">> \o pC \o <<"|">> \o sFr \o <<"}", "}">>,
    Bold(wK) \o <<"{", "{", "a", "p", "i", "|">> \o pC \o <<"|">> \o sFr \o <<"}", "}">>,
    \* titles
    sTitleLineM,
    <<" ">> \o sTitleOpen \o <<":", "f", "r", ":", "k", ".">> \o sTitleClose \o <<"x">> \o sTitleClose,
    sTitleOpen \o sTitleClose,
    <<"x">> \o sTitleOpen \o wN \o sTitleClose,
    sTitleOpen \o wN,
    Tpl(sAPIOpen, <<pC, sFr>>),
    sTitleOpen \o wN \o sTitleClose \o sTextOpen \o <<">">> \o Tpl(sPronOpen, <<pA, sFr>>) }

MarkerPreloadFiles ==
  { NoFile,
    GobFile((wM :> <<pA, pC>>) @@ (wK :> <<pB>>)) }

InitMarkers ==
  /\ exportIdle
  /\ cliIdle
  /\ composeIdle
  /\ pc = "start"
  /\ mode \in MergeModes
  /\ lang = sFr
  /\ file \in MarkerPreloadFiles
  /\ entries = <<>>
  /\ seenWordPron = {}
  /\ preloadedWords = {}
  /\ pdict = <<>>
  /\ plines = <<>>
  /\ pword = <<>>
  /\ pprons = <<>>
  /\ title = <<>>
  /\ inText = FALSE
  /\ lineCount = 0
  /\ replaced = {}
  /\ line = <<>>
  /\ word = <<>>
  /\ prons = <<>>
  /\ atScanStart = [entries |-> <<>>, seen |-> {}, preloaded |-> {}]
  /\ yielded = <<>>

\* scanner.Scan() of scanDump on these dumps.
ScanMarkerLine ==
  /\ pc = "scan"
  /\ prons = <<>>
  /\ lineCount < MaxMarkerLines
  /\ \E l \in MarkerLines : scanOneLine(l)
  /\ UNCHANGED <<pc, cfgVars, exportVars, cliVars, composeVars, preloadedWords, preloadVars, atScanStart>>

NextMarkers ==
  \/ NoPreload
  \/ PreloadOpen
  \/ PreloadGobWord
  \/ PreloadGobPron
  \/ PreloadDone
  \/ ScanMarkerLine
  \/ RecordPron
  \/ ScanEOF

SpecMarkers == InitMarkers /\ [][NextMarkers]_vars

\* The step reads a line of the dump.
ReadsLine == pc = "scan" /\ lineCount' = lineCount + 1

\* C23: a line with </text> leaves inText false, a line with <text and
\* without </text> leaves it true, any other line leaves it as it was; a
\* line that leaves inText false changes nothing of the Representation and
\* yields nothing, a line with <text and without </text> yields what a
\* body line yields, and the Representation changes only while inText is
\* true.
C23_OnlyTextLinesContribute ==
  [][ /\ ReadsLine =>
           /\ inText' = IF Contains(line', sTextClose) THEN FALSE
                        ELSE IF Contains(line', sTextOpen) THEN TRUE
                        ELSE inText
           /\ ~inText' => (prons' = <<>> /\ UNCHANGED <<rep, replaced, yielded>>)
           /\ (Contains(line', sTextOpen) /\ ~Contains(line', sTextClose)
                 /\ extractHeadwordFromLine(line', title') # <<>>
                 /\ ~(mode = "noOverride" /\ extractHeadwordFromLine(line', title') \in preloadedWords))
                => prons' = extractPronunciationsFromLine(line', lang)
      /\ (pc = "scan" /\ rep' # rep) => (inText' /\ ~Contains(line', sTextClose)) ]_vars

\* C23 witness: an earlier body line has contributed, and the line just
\* read opens and closes a text node and carries the only template for
\* (m, a): it has yielded nothing and inText is false.
C23_Witness ==
  /\ pc = "scan"
  /\ line = sTextOpen \o <<">">> \o Bold(wM) \o Tpl(sPronOpen, <<pA, sFr>>) \o sTextClose
  /\ ~inText
  /\ prons = <<>>
  /\ yielded # <<>>
  /\ \A i \in 1..Len(yielded) : yielded[i] # <<wM, pA>>

\* C24: reading a line that contains neither {{pron| nor {{API| leaves
\* entries, seenWordPron and preloadedWords as they were and yields
\* nothing, in every merge mode; and as long as no line has yielded
\* anything the Representation is the one the scan started with (the empty
\* one when nothing was preloaded).
C24_NoTemplateNoChange ==
  /\ [][ (ReadsLine /\ ~Contains(line', sPronOpen) /\ ~Contains(line', sAPIOpen)) =>
           (prons' = <<>> /\ UNCHANGED <<entries, seenWordPron, preloadedWords, yielded>>) ]_vars
  /\ []((pc \in {"scan", "scanned"} /\ yielded = <<>>) =>
          /\ entries = atScanStart.entries
          /\ seenWordPron = atScanStart.seen
          /\ preloadedWords = atScanStart.preloaded
          /\ (~file.present => DOMAIN entries = {}))

\* C24 witness: in replace mode, inside a text node, the scan has read at
\* least two lines, the last one a bold preloaded headword followed by
\* "{{pron c|fr}}", and the preloaded entries are all there.
C24_Witness ==
  /\ pc = "scan"
  /\ mode = "replace"
  /\ inText
  /\ lineCount >= 2
  /\ line = Bold(wM) \o <<" ", "{", "{", "p", "r", "o", "n", " ">> \o pC \o <<"|">> \o sFr \o <<"}", "}">>
  /\ wM \in preloadedWords
  /\ yielded = <<>>
  /\ entries = atScanStart.entries
  /\ DOMAIN entries # {}

\* The trimmed line starts with <title> and contains </title>.
IsTitleLine(l) ==
  HasPrefix(TrimSpace(l), sTitleOpen) /\ Contains(TrimSpace(l), sTitleClose)

\* What stands between the first <title> and the first </title> of a title
\* line.
TitleSpan(l) ==
  LET trim == TrimSpace(l)
  IN SubSeq(trim, Len(sTitleOpen) + 1, Index(trim, sTitleClose) - 1)

\* The line is a body line with a template and without a bold span, and
\* the scan goes on to record its pronunciations.
RecordsUnderTitle ==
  /\ inText'
  /\ hasTemplateMarker(line')
  /\ ~headwordRegex(line').ok
  /\ prons' # <<>>

\* C25 as stated: after a line whose trimmed form starts with <title> and
\* contains </title> the title is the substring between the two, also when
\* it is empty; every other line leaves the title as it was; a body line
\* without a bold span is recorded under the normalized title.
C25_TitleIsLastSpan ==
  [][ ReadsLine =>
        /\ title' = IF IsTitleLine(line') THEN TitleSpan(line') ELSE title
        /\ RecordsUnderTitle => word' = normalizeHeadword(title') ]_vars

\* C25 amended: after a line whose trimmed form starts with <title> and
\* contains </title> with a non-empty substring between the two, the title
\* is that substring; a title line with an empty span and every other line
\* leave the title as it was (no reset at page or text boundaries); a body
\* line without a bold span is recorded under the normalized title.
C25_TitleIsLastNonEmptySpan ==
  [][ ReadsLine =>
        /\ title' = IF IsTitleLine(line') /\ TitleSpan(line') # <<>>
                      THEN TitleSpan(line')
                      ELSE title
        /\ RecordsUnderTitle => word' = normalizeHeadword(title') ]_vars

\* C25 witness: a line has set the title n and, having no bold span, was
\* recorded under it; the line "<title></title>" read after it has left
\* the title n.
C25_Witness ==
  /\ pc = "scan"
  /\ line = sTitleOpen \o sTitleClose
  /\ title = wN
  /\ \E i \in 1..Len(yielded) : yielded[i] = <<wN, pA>>
  /\ wN \in DOMAIN entries

\* ------------------------------------------------------------------------
\* The raw headword after the steps of normalizeHeadword that come before
\* the punctuation trim: entities, tags, interwiki prefix, replacer.
Cleaned(raw) ==
  LET r1 == TrimSpace(htmlTagRegexp(UnescapeString(raw)))
      m == interwikiPrefixRegex(r1)
      r2 == IF m.ok THEN TrimSpace(m.rest) ELSE r1
  IN TrimSpace(RemoveChars(r2, replace))

\* C26: normalizeHeadword removes '.', ',', ';' and ':' only from the end
\* of the cleaned headword: a headword it returns is the cleaned string
\* without its trailing run of these characters, so that what the cleaned
\* string starts with is kept, and the key recorded for a line is that
\* headword.
C26_TrimsTrailingOnly ==
  lineCount > 0 =>
    LET c == Cleaned(RawOf(line))
        h == normalizeHeadword(RawOf(line))
    IN /\ h # <<>> =>
            /\ IsPrefixOf(h, c)
            /\ \A i \in (Len(h) + 1)..Len(c) : c[i] \in {".", ",", ";", ":"}
       /\ \A w \in DOMAIN entries : IsPrefixOf(w, c)

\* ------------------------------------------------------------------------
\* The stages of a wikipa run.

\* The places in events of the operations of a kind.
At(ops) == {i \in 1..Len(events) : events[i].op \in ops}

OpenOps == {"httpGet", "openDump"}

\* C27: a wikipa run preloads at most once, then opens the source once,
\* then scans once, then exports at most once, in this order; the export
\* writes to standard output only after a scan that ended without error,
\* and a run whose preload, open or scan failed writes nothing to standard
\* output and exits with a non-zero status.
C27_StagesInOrder ==
  args.tool = "wikipa" =>
    /\ Cardinality(At({"openDict"})) <= 1
    /\ Cardinality(At(OpenOps)) <= 1
    /\ Cardinality(At({"scan"})) <= 1
    /\ Cardinality(At({"stdout"})) <= 1
    /\ \A i \in At({"openDict"}), j \in At(OpenOps) : i < j
    /\ \A i \in At(OpenOps), j \in At({"scan"}) : i < j
    /\ \A i \in At({"scan"}), j \in At({"stdout"}) : i < j
    /\ At(OpenOps) # {} => (hasPreload(args) <=> At({"openDict"}) # {})
    /\ At({"scan"}) # {} => At(OpenOps) # {}
    /\ At({"stdout"}) # {} => (At({"scan"}) # {} /\ err \in {"", "write"})
    /\ err \in {"preload", "open", "scan"} =>
         /\ At({"stdout"}) = {}
         /\ pc = "exited" => exit = 1
    /\ (pc = "exited" /\ exit = 0) => (At({"stdout"}) # {} /\ err = "")

\* C27 witness: a wikipa run with a preload and a URL whose scan failed
\* has ended with status 1 after preload, request, scan and close, with
\* nothing on standard output.
C27_Witness ==
  /\ args.tool = "wikipa"
  /\ pc = "exited"
  /\ exit = 1
  /\ err = "scan"
  /\ [i \in 1..Len(events) |-> events[i].op]
       = <<"openDict", "closeDict", "httpGet", "scan", "closeReader", "stderr">>

\* ------------------------------------------------------------------------
\* The dictionary files the run has opened.
DictHandles == {i \in At({"openDict"}) : events[i] = Opened("openDict")}

\* runParse has returned.
RunParseReturned == pc \in {"failed", "returned", "exited"}

\* C28: in a wikipa run no file or response body is closed twice, and once
\* runParse has returned, with or without an error, the dictionary file of
\* the preload, when it was opened, has been closed once, and the dump
\* file or the response body, when there is one, has been closed once,
\* also when it is read through the bzip2 reader.
C28_HandlesClosedOnce ==
  args.tool = "wikipa" =>
    /\ Cardinality(At({"closeDict"})) <= Cardinality(DictHandles)
    /\ "status" \in DOMAIN resp => resp.closes <= 1
    /\ RunParseReturned =>
         /\ Cardinality(At({"closeDict"})) = Cardinality(DictHandles)
         /\ "status" \in DOMAIN resp => (resp.closes = 1 /\ resp.body = "closed")

\* C28 witness: a wikipa run with a preload on a local .bz2 dump ended on
\* the export error; the dictionary and the dump file were each closed
\* once.
C28_Witness ==
  /\ args.tool = "wikipa"
  /\ pc = "exited"
  /\ err = "write"
  /\ Cardinality(DictHandles) = 1
  /\ Cardinality(At({"closeDict"})) = 1
  /\ "status" \in DOMAIN resp
  /\ resp.kind = "file"
  /\ resp.stream.wrapped
  /\ resp.closes = 1

\* ------------------------------------------------------------------------
\* preloadDictionary on files seen both ways: dict is what the gob decoder
\* makes of the bytes (for a file it rejects, what it had decoded when it
\* failed), lines is what the line scanner makes of them.

BothWays(g, d, ls) == [present |-> TRUE, gob |-> g, dict |-> d, lines |-> ls]

TwoWayFiles ==
  { BothWays(TRUE, (wM :> <<pA, <<" ", "a">>, <<>>, pB>>) @@ (wN :> <<>>),
             << wM \o <<TAB>> \o pC, wK \o <<TAB>> \o pB >>),
    BothWays(TRUE, (wK :> <<pC, pB>>) @@ (wN :> <<pA>>) @@ (wM :> <<<<" ">>, pB>>),
             << <<"x">> >>),
    BothWays(TRUE, <<>>, << wM \o <<TAB>> \o pA >>),
    BothWays(FALSE, wK :> <<pC>>,
             << wM \o <<TAB>> \o pA \o <<" ", "|", " ">> \o pC,
                <<"#", "x">>,
                wN \o <<TAB, "|">>,
                wK,
                wK \o <<TAB>> \o pB \o <<"|">> \o pB >>),
    BothWays(FALSE, (wM :> <<pB>>) @@ (wN :> <<pC>>),
             << <<" ">> \o wN \o <<" ", TAB, " ">> \o pA \o <<" ">>,
                wM \o <<TAB>> \o pA,
                wN \o <<TAB>> \o pA \o <<"|">> \o pB >>),
    BothWays(FALSE, <<>>, <<>>) }

InitPreload ==
  /\ exportIdle
  /\ cliIdle
  /\ composeIdle
  /\ pc = "start"
  /\ mode \in MergeModes
  /\ lang = sFr
  /\ file \in TwoWayFiles
  /\ entries = <<>>
  /\ seenWordPron = {}
  /\ preloadedWords = {}
  /\ pdict = <<>>
  /\ plines = <<>>
  /\ pword = <<>>
  /\ pprons = <<>>
  /\ title = <<>>
  /\ inText = FALSE
  /\ lineCount = 0
  /\ replaced = {}
  /\ line = <<>>
  /\ word = <<>>
  /\ prons = <<>>
  /\ atScanStart = [entries |-> <<>>, seen |-> {}, preloaded |-> {}]
  /\ yielded = <<>>

NextPreload ==
  \/ PreloadOpen
  \/ PreloadGobWord
  \/ PreloadGobPron
  \/ PreloadTextLine
  \/ PreloadTextPron
  \/ PreloadDone

SpecPreload == InitPreload /\ [][NextPreload]_vars

\* The words of the lines of a file that the text parser takes.
TextWords(f) ==
  {parseTextLine(f.lines[i]).word : i \in {j \in 1..Len(f.lines) : parseTextLine(f.lines[j]).ok}}

\* The pronunciations the text parser finds for a word in the lines of a
\* file.
TextProns(f, w) ==
  UNION { {TrimSpace(parseTextLine(f.lines[i]).chunks[k]) :
             k \in 1..Len(parseTextLine(f.lines[i]).chunks)} :
          i \in {j \in 1..Len(f.lines) :
                   parseTextLine(f.lines[j]).ok /\ parseTextLine(f.lines[j]).word = w} }

\* C29: when the gob decode succeeds the text parser is never run: the
\* preload ends with the words of the decoded map and, for each, only
\* pronunciations of its list; when the decode fails nothing of what the
\* decoder had read is merged, the Representation is unchanged when the
\* text parser starts, and the text parser reads every line of the file,
\* the first one included.
C29_GobFirstTextOnFallback ==
  /\ [][ (pc = "start" /\ pc' = "preloadText") =>
           (~file.gob /\ plines' = file.lines /\ UNCHANGED rep) ]_vars
  /\ [](file.gob =>
          /\ pc # "preloadText"
          /\ plines = <<>>
          /\ preloadedWords \subseteq DOMAIN file.dict
          /\ pc = "scan" =>
               /\ preloadedWords = DOMAIN file.dict
               /\ \A w \in DOMAIN entries :
                    Range(entries[w]) = {TrimSpace(file.dict[w][i]) : i \in 1..Len(file.dict[w])} \ {<<>>})
  /\ [](~file.gob =>
          /\ pc # "preloadGob"
          /\ pdict = <<>>
          /\ pc = "scan" =>
               /\ preloadedWords = TextWords(file)
               /\ \A w \in DOMAIN entries : Range(entries[w]) = TextProns(file, w) \ {<<>>})

\* C29 witness: the decode of a file failed after the decoder had read an
\* entry for k; the text parser has loaded the file from its first line,
\* and k has the pronunciation of its line, not the one the decoder read.
C29_Witness ==
  /\ pc = "scan"
  /\ ~file.gob
  /\ wK \in DOMAIN file.dict
  /\ parseTextLine(file.lines[1]).word \in DOMAIN entries
  /\ Get(entries, wK) = <<pB>>
  /\ pC \in Range(file.dict[wK])

\* ------------------------------------------------------------------------
\* C30: after the preload and after every line of the scan, in every merge
\* mode, each key of entries has a non-empty list; the text export of a
\* build writes as many lines as entries has keys, which is the word count
\* scanDump returns; and lineCount grows by one with every line read,
\* skipped or not, and with nothing else.
C30_NoEmptyLists ==
  /\ [](LineBoundary => \A w \in DOMAIN entries : entries[w] # <<>>)
  /\ []((pc = "exported" /\ out.format = "text") =>
          /\ exported = entries
          /\ Len(out.lines) = Cardinality(DOMAIN entries))
  /\ [][ pc = "scan" =>
           lineCount' = IF prons = <<>> /\ pc' = "scan" THEN lineCount + 1 ELSE lineCount ]_vars

\* C30 witness: a build in replace mode has discarded the preloaded list
\* of a word, read two lines and written one line per key, two or more.
C30_Witness ==
  /\ pc = "exported"
  /\ run = 1
  /\ out.format = "text"
  /\ mode = "replace"
  /\ replaced # {}
  /\ lineCount >= 2
  /\ Cardinality(DOMAIN entries) >= 2
  /\ Len(out.lines) = Cardinality(DOMAIN entries)
  /\ wN \in preloadedWords \ DOMAIN entries

====
